---- MODULE Spec2Model ----
(***************************************************************************)
(* The concurrent shared-folder crawler iter_share_files_with_path of      *)
(* plugins.v2/p115strmhelper/core/p115.py: a generator that owns a         *)
(* ThreadPoolExecutor, submits one _job per (directory, offset) page,      *)
(* drains completions one at a time, yields the file records of each page  *)
(* and resubmits the tasks the page discovered.                            *)
(*                                                                         *)
(* Strings of the program (names, paths) are sequences of one-character    *)
(* strings, so that escaping and path concatenation are computed.          *)
(***************************************************************************)
EXTENDS Integers, Sequences, FiniteSets, TLC

(***************************************************************************)
(* Bounds of the model.                                                    *)
(***************************************************************************)
\* Largest number of entries (files and directories) of a remote tree.
MaxEntries == 3
\* Largest max_workers the caller passes.
MaxWorkers == 2
\* Smallest page length the remote service may cap a listing at.
PageCap == 1
\* Number of entries of the one large directory of the pagination crawl.
BigDirCount == 2500
\* Worker threads that call one cooldown gate.
MaxCallers == 2
\* Calls one gate is asked for.
MaxGateCalls == 3
\* Largest count the service reports for a directory of the page chain.
MaxCount == 4
\* Largest number of entries the service returns on a page of the page chain.
MaxItems == 2
\* Largest number of pages of the page chain.
MaxPages == 3
\* The clock stops at MaxTime.
MaxTime == 4

(***************************************************************************)
(* Program constants.                                                      *)
(***************************************************************************)
FirstPageLimit == 1000
NextPageLimit == 7000
\* The cid parameter: the directory the crawl starts from.
RootCid == 0

\* api_name of the three ApiEndpointInfo values.
M1 == "share_snap_app_http"
M2 == "share_snap_app_https"
F == "share_snap"

snap_app_http_info == [api_name |-> M1, base_url |-> <<"http://pro.api.115.com">>]
snap_app_https_info == [api_name |-> M2, base_url |-> <<"https://proapi.115.com">>]
\* base_url=None is the empty sequence.
snap_api_info == [api_name |-> F, base_url |-> <<>>]

\* The most clients CloudDriveDisk creates.
MaxClients == 2

\* The most threads that call CloudDriveDisk at a time.
MaxThreads == 3

\* The most calls of init_plugin with a config, of stop_service and of the
\* storage operations made on one CloudDriveDisk.
MaxCalls == 3

\* The longest stream of replies of the upload channel.
MaxStream == 3

\* The upload status codes of the CloudDrive service.
UPLOAD_STATUS_FINISH == 5
UPLOAD_STATUS_ERROR == 9
UPLOAD_STATUS_FATAL_ERROR == 10

\* The longest feed of life-behaviour events.
MaxFeed == 2

\* iter_life_behavior_once: the first batch when from_time or from_id is
\* given, and the limit of every other request.
IncrementalBatch == 64
LifePageLimit == 1000

\* The default of the speed_mode parameter.
DefaultSpeedMode == 3

\* The values of speed_mode the caller passes: the four profiles and one
\* value that is none of them.
SpeedModes == 0..4

\* Mutant: profile 3 gives the fallback the cooldown of a mirror of profile 2.
speed_configs_Wrong ==
  (0 :> <<250, 250, 750>>) @@ (1 :> <<500, 500, 1500>>)
    @@ (2 :> <<1000, 1000, 2000>>) @@ (3 :> <<1500, 1500, 1000>>)

\* speed_configs: the cooldowns of [M1, M2, F], in milliseconds.
speed_configs ==
  (0 :> <<250, 250, 750>>) @@ (1 :> <<500, 500, 1500>>)
    @@ (2 :> <<1000, 1000, 2000>>) @@ (3 :> <<1500, 1500, 2000>>)

\* speed_configs.get(speed_mode, speed_configs[1])
CooldownTriple(mode) ==
  IF mode \in DOMAIN speed_configs THEN speed_configs[mode] ELSE speed_configs[1]

\* app_http_cooldown, app_https_cooldown, api_cooldown: the cooldown the
\* gate of each endpoint is built with.
CooldownOf(mode, api_name) ==
  CASE api_name = M1 -> CooldownTriple(mode)[1]
    [] api_name = M2 -> CooldownTriple(mode)[2]
    [] api_name = F -> CooldownTriple(mode)[3]

\* The clock of the model ticks every quarter of a second.
Ticks(ms) == ms \div 250

repeating_pair == <<snap_app_http_info, snap_app_https_info>>

\* repeating_pair * 6 with snap_api_info inserted at (0-based) index 6:
\* thirteen slots, here 1-based.  The program builds it and never reads it.
first_page_api_pool ==
  [i \in 1..13 |->
     IF i = 7 THEN snap_api_info
     ELSE IF i < 7 THEN repeating_pair[((i - 1) % 2) + 1]
     ELSE repeating_pair[((i - 2) % 2) + 1]]

Min(a, b) == IF a < b THEN a ELSE b

(***************************************************************************)
(* The remote tree (the provider's side).  Entry e of 1..n has a parent    *)
(* directory (0 is the root), a kind and a raw name; a directory lists its *)
(* entries in id order.                                                    *)
(***************************************************************************)
Letters == <<"a", "b", "c", "d", "e", "f", "g", "h">>

\* Raw names: plain one-letter names, or entry 1 named a/b and entry 2 named
\* a|b, or every entry named c (then no two entries share a directory).
EntryName(e, scheme) ==
  IF scheme = "sep" /\ e = 1 THEN <<"a", "/", "b">>
  ELSE IF scheme = "sep" /\ e = 2 THEN <<"a", "|", "b">>
  ELSE IF scheme = "same" THEN <<"c">>
  ELSE <<Letters[e]>>

Schemes == {"plain", "sep", "same"}

TreesOfSize(n) ==
  { [n |-> n, parent |-> p, is_dir |-> d,
     name |-> [e \in 1..n |-> EntryName(e, s)]] :
      p \in { q \in [1..n -> 0..MaxEntries] :
                \A e \in 1..n : q[e] < e },
      d \in [1..n -> BOOLEAN],
      s \in IF n = 0 THEN {"plain"} ELSE Schemes }

\* An entry's parent is a directory, and the entries of one directory have
\* different raw names.
WellFormed(t) ==
  /\ \A e \in 1..t.n : t.parent[e] = 0 \/ t.is_dir[t.parent[e]]
  /\ \A d, e \in 1..t.n :
        (d # e /\ t.parent[d] = t.parent[e]) => t.name[d] # t.name[e]

Trees == { t \in UNION { TreesOfSize(n) : n \in 0..MaxEntries } : WellFormed(t) }

\* The raw attribute dictionary of entry e as the service returns it.
Attr(t, e) == [id |-> e, name |-> t.name[e], is_dir |-> t.is_dir[e]]

\* The entries of directory cid, in id order.
Children(t, cid) ==
  LET IsChild(a) == t.parent[a.id] = cid
  IN SelectSeq([e \in 1..t.n |-> Attr(t, e)], IsChild)

\* share_snap / share_snap_app: {data: {count, list}} for one page.  The
\* service returns at most cap entries whatever limit asks for.
ListShare(t, cap, payload) ==
  LET all == Children(t, payload.cid)
      last == Min(Len(all), payload.offset + Min(payload.limit, cap))
  IN [count |-> Len(all),
      list |-> SubSeq(all, payload.offset + 1, last)]

(***************************************************************************)
(* _job                                                                    *)
(***************************************************************************)

\* Mutant: the two limits are the wrong way round.
Limit_Swapped(offset) == IF offset # 0 THEN FirstPageLimit ELSE NextPageLimit

\* Mutant: every page is asked for with the first page's limit.
Limit_AlwaysFirst(offset) == FirstPageLimit

\* limit = 1000 for the first page of a directory, 7000 afterwards.
Limit(offset) == IF offset # 0 THEN NextPageLimit ELSE FirstPageLimit

\* share_code, receive_code, asc and o are the same in every payload of one
\* crawl and are left out.
Payload(task) == [cid |-> task[1], limit |-> Limit(task[3]), offset |-> task[3]]

\* Mutant: names are taken as the service gives them.
posix_escape_name_Keep(name) == name

\* posix_escape_name(name, repl="|")
posix_escape_name(name) ==
  [i \in 1..Len(name) |-> IF name[i] = "/" THEN "|" ELSE name[i]]

\* Mutant: the path is the entry's name alone.
JoinPath_NoPrefix(path_prefix, name) == <<"/">> \o name

\* f"{path_prefix}/{name}" if path_prefix else f"/{name}"
JoinPath(path_prefix, name) ==
  IF path_prefix # <<>> THEN path_prefix \o <<"/">> \o name
  ELSE <<"/">> \o name

\* One item of the loop: the normalized attr with its escaped name and path.
Normalize(item, path_prefix) ==
  LET name == posix_escape_name(item.name)
  IN [id |-> item.id, name |-> name, is_dir |-> item.is_dir,
      path |-> JoinPath(path_prefix, name)]

NormalizedItems(task, resp) ==
  [i \in 1..Len(resp.list) |-> Normalize(resp.list[i], task[2])]

IsDirAttr(a) == a.is_dir

\* Mutant: every entry is taken for a file.
IsFileAttr_Any(a) == TRUE

IsFileAttr(a) == ~a.is_dir

RECURSIVE Reversed(_)
Reversed(s) == IF s = <<>> THEN <<>> ELSE Append(Reversed(Tail(s)), Head(s))

\* Mutant: the files of a page are kept last first.
files_found_Reversed(task, resp) ==
  Reversed(SelectSeq(NormalizedItems(task, resp), IsFileAttr))

files_found(task, resp) == SelectSeq(NormalizedItems(task, resp), IsFileAttr)

DirTasks(task, resp) ==
  LET dirs == SelectSeq(NormalizedItems(task, resp), IsDirAttr)
  IN [i \in 1..Len(dirs) |-> <<dirs[i].id, dirs[i].path, 0>>]

\* Mutant: the continuation task asks for the page just fetched.
Continuation_SameOffset(task, resp) ==
  LET new_offset == task[3] + Len(resp.list)
  IN IF new_offset < resp.count /\ Len(resp.list) > 0
     THEN << <<task[1], task[2], task[3]>> >>
     ELSE <<>>

\* Mutant: a page without items continues the directory too.
Continuation_AlsoWhenEmpty(task, resp) ==
  LET new_offset == task[3] + Len(resp.list)
  IN IF new_offset < resp.count
     THEN << <<task[1], task[2], new_offset>> >>
     ELSE <<>>

\* Mutant: the offset advances by the limit asked for, not by the items received.
Continuation_ByLimit(task, resp) ==
  LET new_offset == task[3] + Limit(task[3])
  IN IF new_offset < resp.count /\ Len(resp.list) > 0
     THEN << <<task[1], task[2], new_offset>> >>
     ELSE <<>>

Continuation(task, resp) ==
  LET new_offset == task[3] + Len(resp.list)
  IN IF new_offset < resp.count /\ Len(resp.list) > 0
     THEN << <<task[1], task[2], new_offset>> >>
     ELSE <<>>

subdirs_to_scan(task, resp) == DirTasks(task, resp) \o Continuation(task, resp)

\* What the listing call or check_response may raise, by how the exception
\* takes the assignment to e.args of lines 211-213:
\*   TransportError  an exception with one argument, whose str() is args[0];
\*   ProviderError   an OSError with two arguments (errno, response), whose
\*                   str() is built from errno and strerror and not from args;
\*   FrozenError     an exception whose args cannot be assigned.
ErrorKinds == {"TransportError", "ProviderError", "FrozenError"}

\* e.args = ... of lines 211-213 raises TypeError or AttributeError.
ArgsFrozen(kind) == kind = "FrozenError"

\* str(e) shows args[0].
StrShowsArgs(kind) == kind # "ProviderError"

NoError == [kind |-> "none"]

\* The text f"{str(e)} | API: ..., Base URL: ..., Payload: ..." of lines
\* 205-209: the base url is there when api_info has one.
ErrorMsg(api_info, task) ==
  [api_name |-> api_info.api_name, base_url |-> api_info.base_url,
   payload |-> Payload(task)]

\* Mutant: the exception is re-raised as it came.
JobError_Unenriched(kind, api_info, task) ==
  [kind |-> kind, cause |-> "none", in_str |-> FALSE,
   args0 |-> [api_name |-> "", base_url |-> <<>>, payload |-> <<>>]]

\* The exception _job raises, lines 203-219: the one caught with args[0]
\* replaced by the extended message, or, when its args cannot be assigned, a
\* new RuntimeError that carries the message and has the one caught as cause.
JobError(kind, api_info, task) ==
  IF ArgsFrozen(kind)
  THEN [kind |-> "RuntimeError", cause |-> kind,
        args0 |-> ErrorMsg(api_info, task), in_str |-> TRUE]
  ELSE [kind |-> kind, cause |-> "none",
        args0 |-> ErrorMsg(api_info, task), in_str |-> StrShowsArgs(kind)]

(***************************************************************************)
(* State                                                                   *)
(***************************************************************************)
VARIABLES
  tree,             \* the remote tree behind the share
  server_cap,       \* the service's cap on a page's length
  max_workers,      \* the max_workers parameter
  futures,          \* every Future created, in submission order
  work_queue,       \* executor._work_queue: indices of futures, FIFO
  pending_futures,  \* the set pending_futures (indices of futures)
  cycler,           \* how many times next(first_page_api_cycler) was called, mod 2
  pc,               \* where the generator is
  cur,              \* the loop variable future: the future taken last (0: none yet)
  file_idx,         \* how many of its files were yielded
  yielded,          \* what the consumer received, in order
  consumer_error,   \* the exception the consumer received or is about to
  sub_idx,          \* how many of the tasks of cur were submitted
  to_cancel,        \* the futures the loop of lines 262-263 has yet to cancel
  late_starts,      \* history: the futures that started to run after some
                    \* execution had raised
  not_started,      \* history: the futures still PENDING when future.result()
                    \* raised at line 249
  held_cancelled,   \* history: the futures cancelled at line 263 while a pool
                    \* thread held their work item
  requests,         \* history: the listing calls issued, in order
  now,              \* the clock
  speed_mode,       \* the speed_mode parameter
  gate_api,         \* the api_name of the endpoint the gate wraps
  cooldown,         \* the gate's cooldown, in ticks
  gate_last,        \* the gate's record of the end of its previous call
  gate_lock,        \* the caller that holds the gate's lock (0: free)
  gpc,              \* where each caller of the gate is
  gate_wake,        \* when a sleeping caller's sleep is over
  inflight,         \* the call each calling caller has under way
  calls,            \* history: the calls of the gate that ended, in order
  job_pc,           \* where the _job of the page chain is
  job_task,         \* its arguments (_cid, path_prefix, offset)
  job_resp,         \* the response of its listing call
  job_out,          \* what it returned: files_found and subdirs_to_scan
  job_pages,        \* history: the tasks run and the responses they got
  life_from_id,     \* iter_life_behavior_once: the from_id parameter
  life_from_time,   \* its from_time, as given and then as reset
  life_type,        \* its type parameter ("" when none is given)
  life_ignore_types,\* its ignore_types ({} for None or an empty container)
  life_feed,        \* the events the service holds, in the order it lists them
  life_cap,         \* the service's cap on a page's length
  life_extra,       \* by how much the count the service reports exceeds the feed
  life_pc,          \* where the generator is
  life_limit,       \* payload["limit"]
  life_offset,      \* offset, which is payload["offset"] at each call
  life_cycle,       \* how often next(life_behavior_detail_cycle) was called, mod 2
  life_resp,        \* resp: the response of the last call
  life_idx,         \* how many events of the page the for loop is at have passed
  life_seen,        \* seen
  life_yielded,     \* what the consumer received, in order
  life_requests,    \* history: the calls issued, in order
  up_pc,            \* CloudDriveApi.upload: where the call is
  up_local_ok,      \* local_path exists and is a file
  up_remote_item,   \* find_file_by_path finds an item at target_path
  up_stream,        \* the replies the channel still has to deliver
  up_result,        \* what upload returned
  up_finished,      \* history: a FINISH status for the own upload_id came
  up_cancels,       \* history: the calls of remote_upload_control_cancel
  plug_enabled,     \* CloudDriveDisk._enabled
  plug_username,    \* _username is not empty
  plug_password,    \* _password is not empty
  plug_client,      \* _client: 0 for None, else the number of the client
  plug_api,         \* _clouddrive_api: 0 for None, else the client it wraps
  plug_clients,     \* how many clients were created
  plug_authed,      \* the clients whose authenticate returned True
  plug_closed,      \* the clients whose close was called
  plug_last,        \* history: how the last init_plugin that read its config,
                    \* or stop_service, ended
  plug_op,          \* history: the storage operation that has just ended
                    \* and its result, for one step
  plug_calls,       \* the calls of init_plugin, stop_service and the storage
                    \* operations under way: where each is, what it holds
  plug_begun,       \* history: how many calls were made
  plug_overlap      \* history: a call began while another was under way

crawlVars ==
  <<tree, server_cap, max_workers, futures, work_queue, pending_futures,
    cycler, pc, cur, file_idx, sub_idx, to_cancel, yielded, consumer_error,
    late_starts, not_started, held_cancelled, requests>>

gateVars ==
  <<speed_mode, gate_api, now, cooldown, gate_last, gate_lock, gpc, gate_wake,
    inflight, calls>>

\* What the gate is built with.
gateConf == <<speed_mode, gate_api, cooldown>>

jobVars == <<job_pc, job_task, job_resp, job_out, job_pages>>

lifeConf ==
  <<life_from_id, life_type, life_ignore_types, life_feed, life_cap,
    life_extra>>

lifeVars ==
  <<lifeConf, life_from_time, life_pc, life_limit, life_offset, life_cycle,
    life_resp, life_idx, life_seen, life_yielded, life_requests>>

\* The state of the share crawler, its gates and its page jobs.
shareVars == <<crawlVars, gateVars, jobVars>>

uploadConf == <<up_local_ok, up_remote_item>>

uploadVars ==
  <<uploadConf, up_pc, up_stream, up_result, up_finished, up_cancels>>

pluginVars ==
  <<plug_enabled, plug_username, plug_password, plug_client, plug_api,
    plug_clients, plug_authed, plug_closed, plug_last, plug_op, plug_calls,
    plug_begun, plug_overlap>>

cloudVars == <<uploadVars, pluginVars>>

\* The state of the other components.
otherVars == <<lifeVars, cloudVars>>

vars == <<shareVars, otherVars>>

Futs == 1..Len(futures)

Running == { i \in Futs : futures[i].state = "RUNNING" }

\* The work items a pool thread has taken from the queue and not yet begun
\* to run.
Held == { i \in Futs : futures[i].held }

\* executor.submit: a new Future, PENDING, its work item not yet taken by a
\* thread.
NewFuture(api_info, task) ==
  [task |-> task, api |-> api_info, state |-> "PENDING", held |-> FALSE,
   called |-> FALSE, files |-> <<>>, subdirs |-> <<>>, exception |-> NoError]

\* next(first_page_api_cycler), with the cycler having been advanced c times.
CyclerNext(c) == repeating_pair[(c % 2) + 1]

\* Mutant: every discovered task takes the next endpoint of the cycler.
ApiToUse_AlwaysCycle(task_offset, c) == CyclerNext(c)

\* Lines 254-258: the endpoint of a discovered task.
ApiToUse(task_offset, c) ==
  IF task_offset > 0 THEN snap_api_info ELSE CyclerNext(c)

\* Mutant: the initial future goes to the fallback endpoint.
InitialApi_Fallback(c) == snap_api_info

\* The endpoint of the initial future (line 244).
InitialApi(c) == CyclerNext(c)

\* Mutant: the cycler is advanced for a continuation task as well.
CyclerAfter_Always(task_offset, c) == (c + 1) % 2

\* The cycler after a task was submitted: next() is called for a first-page
\* task only (lines 254-258).
CyclerAfter(task_offset, c) ==
  IF task_offset > 0 THEN c ELSE (c + 1) % 2

(***************************************************************************)
(* ApiEndpointCooldown: one gate and the worker threads that call it.  The *)
(* gate remembers when its previous call ended; a caller takes the gate's  *)
(* lock, waits out what is left of the cooldown, makes the call, records   *)
(* the time the call ended and releases the lock.  Time is discrete.       *)
(***************************************************************************)
GateCallers == 1..MaxCallers

\* The gate before any call: there is no previous call to wait after.
NoLastCall == [called |-> FALSE, end |-> 0]

\* Mutant: a caller never waits.
RemainingDelta_None(elapsed, c) == 0

\* How long a caller is blocked when elapsed has passed since the last call.
RemainingDelta(elapsed, c) == IF elapsed < c THEN c - elapsed ELSE 0

\* Mutant: the gate takes no lock.
GateLockFree_Always == TRUE

\* The gate's lock is free.
GateLockFree == gate_lock = 0

\* Mutant: only a call that returned is recorded.
LastCallAfter_OnlyReturned(last, ok, t) ==
  IF ok THEN [called |-> TRUE, end |-> t] ELSE last

\* The gate's record after a call ended at t, returned (ok) or raised.
LastCallAfter(last, ok, t) == [called |-> TRUE, end |-> t]

\* Calls made or under way.
GateCallsBegun ==
  Len(calls) + Cardinality({ w \in GateCallers : gpc[w] # "idle" })

GateInit(mode, api_name) ==
  /\ speed_mode = mode
  /\ gate_api = api_name
  /\ cooldown = Ticks(CooldownOf(mode, api_name))
  /\ now = 0
  /\ gate_last = NoLastCall
  /\ gate_lock = 0
  /\ gpc = [w \in GateCallers |-> "idle"]
  /\ gate_wake = [w \in GateCallers |-> 0]
  /\ inflight = [w \in GateCallers |-> [start |-> 0, before |-> 0]]
  /\ calls = <<>>

\* Caller w starts the endpoint's call: the request is issued now, after
\* Len(calls) calls of this gate have completed.
BeginCall(w) ==
  /\ gpc' = [gpc EXCEPT ![w] = "calling"]
  /\ inflight' = [inflight EXCEPT ![w] = [start |-> now, before |-> Len(calls)]]

\* Caller w enters the gate: takes the lock, reads the clock and either
\* issues the request at once or goes to sleep for the remaining delta.
GateEnter(w) ==
  /\ gpc[w] = "idle"
  /\ GateLockFree
  /\ GateCallsBegun < MaxGateCalls
  /\ gate_lock' = w
  /\ LET delta == IF gate_last.called
                  THEN RemainingDelta(now - gate_last.end, cooldown)
                  ELSE 0
     IN IF delta > 0
        THEN /\ gpc' = [gpc EXCEPT ![w] = "sleeping"]
             /\ gate_wake' = [gate_wake EXCEPT ![w] = now + delta]
             /\ UNCHANGED inflight
        ELSE /\ BeginCall(w)
             /\ UNCHANGED gate_wake
  /\ UNCHANGED <<crawlVars, jobVars, otherVars, gateConf, now, gate_last,
                 calls>>

\* sleep(delta) returns, not before delta has passed.
GateWake(w) ==
  /\ gpc[w] = "sleeping"
  /\ now >= gate_wake[w]
  /\ BeginCall(w)
  /\ UNCHANGED <<crawlVars, jobVars, otherVars, gateConf, now, gate_last,
                 gate_lock, gate_wake,
                 calls>>

\* The endpoint's call returns (ok) or raises (~ok): the gate records the
\* time and releases its lock either way.
GateCallEnds(w, ok) ==
  /\ gpc[w] = "calling"
  /\ calls' = Append(calls, [caller |-> w, start |-> inflight[w].start,
                             before |-> inflight[w].before, end |-> now,
                             ok |-> ok])
  /\ gate_last' = LastCallAfter(gate_last, ok, now)
  /\ gate_lock' = 0
  /\ gpc' = [gpc EXCEPT ![w] = "idle"]
  /\ UNCHANGED <<crawlVars, jobVars, otherVars, gateConf, now, gate_wake,
                 inflight>>

\* Time passes.
Tick ==
  /\ now < MaxTime
  /\ now' = now + 1
  /\ UNCHANGED <<crawlVars, jobVars, otherVars, gateConf, gate_last,
                 gate_lock, gpc, gate_wake,
                 inflight, calls>>

(***************************************************************************)
(* _job on its own: the pages of one directory, fetched one after the      *)
(* other along the continuation chain, from a service that may answer      *)
(* anything: any count, and any list of up to MaxItems entries, whatever   *)
(* it answered before.                                                     *)
(***************************************************************************)
\* The entries of a page: the k-th entry of the page at offset has the id
\* offset + k + 1 and is a directory when kinds[k] says so.
PageList(offset, kinds) ==
  [k \in 1..Len(kinds) |->
     [id |-> offset + k + 1,
      name |-> <<Letters[((offset + k - 1) % Len(Letters)) + 1]>>,
      is_dir |-> kinds[k]]]

KindsUpTo(n) == UNION { [1..m -> BOOLEAN] : m \in 0..n }

\* What the service may answer to the request of a task.
Responses(task) ==
  { [count |-> c, list |-> PageList(task[3], kinds)] :
      c \in 0..MaxCount, kinds \in KindsUpTo(MaxItems) }

\* The task of a directory's first page.
FirstTasks == { <<RootCid, <<>>, 0>>, <<1, <<"/", "a">>, 0>> }

NoOutput == [files |-> <<>>, subdirs |-> <<>>]

JobInit ==
  /\ job_pc = "idle"
  /\ job_task = <<RootCid, <<>>, 0>>
  /\ job_resp = [count |-> 0, list |-> <<>>]
  /\ job_out = NoOutput
  /\ job_pages = <<>>

\* resp = api_info.endpoint(payload); check_response(resp) passes.
JobCall ==
  /\ job_pc = "idle"
  /\ job_resp' \in Responses(job_task)
  /\ job_pc' = "called"
  /\ UNCHANGED <<crawlVars, gateVars, otherVars, job_task, job_out, job_pages>>

\* Lines 220-240: the response is parsed into files and tasks.
JobParse ==
  /\ job_pc = "called"
  /\ job_out' = [files |-> files_found(job_task, job_resp),
                 subdirs |-> subdirs_to_scan(job_task, job_resp)]
  /\ job_pages' = Append(job_pages, [task |-> job_task, resp |-> job_resp])
  /\ job_pc' = "returned"
  /\ UNCHANGED <<crawlVars, gateVars, otherVars, job_task, job_resp>>

\* The tasks of job_out that continue the directory of job_task.
JobContinuations ==
  { k \in 1..Len(job_out.subdirs) : job_out.subdirs[k][3] > 0 }

\* The continuation task the page produced is the next task run.
JobNextPage ==
  /\ job_pc = "returned"
  /\ Len(job_pages) < MaxPages
  /\ \E k \in JobContinuations : job_task' = job_out.subdirs[k]
  /\ job_pc' = "idle"
  /\ UNCHANGED <<crawlVars, gateVars, otherVars, job_resp, job_out, job_pages>>

(***************************************************************************)
(* iter_life_behavior_once: one pass over the life-behaviour events of the *)
(* account, newest page first, through two listing methods taken in turn.  *)
(* An event is a record with id, type and file_id, and with or without     *)
(* update_time.                                                            *)
(***************************************************************************)
\* The two methods of life_behavior_detail_cycle.
life_behavior_detail_cycle == <<"life_behavior_detail", "life_behavior_detail_app">>

EventIds == {1, 2}

\* Two behaviour type codes; the second is the one ignore_types may hold.
EventTypes == {2, 7}

FileIds == {"a", "b"}

Events ==
  [id : EventIds, type : EventTypes, file_id : FileIds]
     \cup [id : EventIds, type : EventTypes, file_id : FileIds,
           update_time : {1}]

Feeds == UNION { [1..n -> Events] : n \in 0..MaxFeed }

\* first_batch_size, when the caller gives none: lines 387-388.
FirstBatchSize(from_time, from_id) ==
  IF from_time # 0 \/ from_id # 0 THEN IncrementalBatch ELSE LifePageLimit

\* Mutant: from_time is left as given.
ResetFromTime_Keep(from_time, from_id) == from_time

\* Lines 389-390: with a from_id and no from_time, from_time becomes -1.
ResetFromTime(from_time, from_id) ==
  IF from_id # 0 /\ from_time = 0 THEN -1 ELSE from_time

\* Mutant: the event with the id from_id itself is let through.
StopsAt_Inclusive(event, from_id, from_time) ==
  \/ from_id # 0 /\ event.id < from_id
  \/ /\ from_time # 0
     /\ "update_time" \in DOMAIN event
     /\ event.update_time < from_time

\* Lines 403-410: the event at which the generator returns.
StopsAt(event, from_id, from_time) ==
  \/ from_id # 0 /\ event.id <= from_id
  \/ /\ from_time # 0
     /\ "update_time" \in DOMAIN event
     /\ event.update_time < from_time

\* Line 414: the event is one to yield.
Wanted(event, type, ignore_types) ==
  \/ type # ""
  \/ ignore_types = {}
  \/ event.type \notin ignore_types

\* Mutant: a file_id is remembered only when its event was yielded.
SeenAfter_OnlyYielded(seen, event, type, ignore_types) ==
  IF Wanted(event, type, ignore_types) THEN seen \cup {event.file_id} ELSE seen

\* Lines 413-417: seen after an event that did not stop the generator.
SeenAfter(seen, event, type, ignore_types) == seen \cup {event.file_id}

\* Mutant: every wanted event is yielded, seen or not.
YieldsEvent_NoDedup(seen, event, type, ignore_types) ==
  Wanted(event, type, ignore_types)

\* Lines 413-416: the event is yielded.
YieldsEvent(seen, event, type, ignore_types) ==
  event.file_id \notin seen /\ Wanted(event, type, ignore_types)

\* The service: the slice of the feed the payload asks for, cut to its cap,
\* and the count it reports.
LifeServe(feed, cap, extra, limit, offset) ==
  [count |-> Len(feed) + extra,
   list |-> SubSeq(feed, offset + 1, Min(Len(feed), offset + Min(limit, cap)))]

LifeIdle ==
  /\ life_from_id = 0
  /\ life_from_time = 0
  /\ life_type = ""
  /\ life_ignore_types = {}
  /\ life_feed = <<>>
  /\ life_cap = LifePageLimit
  /\ life_extra = 0
  /\ life_pc = "idle"
  /\ life_limit = 0
  /\ life_offset = 0
  /\ life_cycle = 0
  /\ life_resp = [count |-> 0, list |-> <<>>]
  /\ life_idx = 0
  /\ life_seen = {}
  /\ life_yielded = <<>>
  /\ life_requests = <<>>

\* The call of iter_life_behavior_once: lines 381-390 and, at the first
\* next(), lines 393-395.
LifeOpen ==
  /\ life_pc = "new"
  /\ life_limit' = FirstBatchSize(life_from_time, life_from_id)
  /\ life_from_time' = ResetFromTime(life_from_time, life_from_id)
  /\ life_pc' = "call"
  /\ UNCHANGED <<shareVars, cloudVars, lifeConf,
                 life_offset, life_cycle, life_resp,
                 life_idx, life_seen, life_yielded, life_requests>>

\* The request that next(life_behavior_detail_cycle)(payload) issues.
LifeRequest ==
  [method |-> life_behavior_detail_cycle[life_cycle + 1],
   limit |-> life_limit, offset |-> life_offset]

\* resp = yield next(life_behavior_detail_cycle)(payload); check_response
\* passes: lines 396-400 and 427-429.  From the second call on the limit is
\* 1000.
LifeCall ==
  /\ life_pc = "call"
  /\ life_requests' = Append(life_requests, LifeRequest)
  /\ life_cycle' = (life_cycle + 1) % 2
  /\ life_resp' = LifeServe(life_feed, life_cap, life_extra, life_limit,
                            life_offset)
  /\ life_limit' = LifePageLimit
  /\ life_idx' = 0
  /\ life_pc' = "events"
  /\ UNCHANGED <<shareVars, cloudVars, lifeConf,
                 life_from_time, life_offset, life_seen,
                 life_yielded>>

\* The call or check_response raises.
LifeCallRaises ==
  /\ life_pc = "call"
  /\ life_requests' = Append(life_requests, LifeRequest)
  /\ life_cycle' = (life_cycle + 1) % 2
  /\ life_pc' = "raised"
  /\ UNCHANGED <<shareVars, cloudVars, lifeConf,
                 life_from_time, life_limit, life_offset,
                 life_resp, life_idx, life_seen, life_yielded>>

\* BEHAVIOR_TYPE_TO_NAME.get(event_type, ""), for the type codes of
\* EventTypes: p115client's names of the behaviour types 2 and 7.
BehaviorName(event_type) ==
  CASE event_type = 2 -> "upload_file"
    [] event_type = 7 -> "browse_image"
    [] OTHER -> ""

\* Line 415: the event with its event_name set.
Named(event) ==
  [f \in DOMAIN event \cup {"event_name"} |->
     IF f = "event_name" THEN BehaviorName(event.type) ELSE event[f]]

\* One turn of for event in events, lines 402-417, up to the yield of line
\* 416 when the event is one to yield: the generator is suspended there,
\* with seen_add(fid) of line 417 still to come.
LifeEvent ==
  /\ life_pc = "events"
  /\ life_idx < Len(life_resp.list)
  /\ LET event == life_resp.list[life_idx + 1]
     IN IF StopsAt(event, life_from_id, life_from_time)
        THEN /\ life_pc' = "done"
             /\ UNCHANGED <<life_idx, life_seen, life_yielded>>
        ELSE IF YieldsEvent(life_seen, event, life_type, life_ignore_types)
        THEN /\ life_yielded' = Append(life_yielded, Named(event))
             /\ life_pc' = "suspended"
             /\ UNCHANGED <<life_idx, life_seen>>
        ELSE /\ life_seen' =
                  IF event.file_id \in life_seen THEN life_seen
                  ELSE SeenAfter(life_seen, event, life_type, life_ignore_types)
             /\ life_idx' = life_idx + 1
             /\ UNCHANGED <<life_pc, life_yielded>>
  /\ UNCHANGED <<shareVars, cloudVars, lifeConf,
                 life_from_time, life_limit, life_offset,
                 life_cycle, life_resp, life_requests>>

\* The consumer asks for the next event: the generator goes on after the
\* yield with seen_add(fid), line 417, and the next turn of the loop.
LifeResume ==
  /\ life_pc = "suspended"
  /\ life_seen' = SeenAfter(life_seen, life_resp.list[life_idx + 1],
                            life_type, life_ignore_types)
  /\ life_idx' = life_idx + 1
  /\ life_pc' = "events"
  /\ UNCHANGED <<shareVars, cloudVars, lifeConf,
                 life_from_time, life_limit, life_offset,
                 life_cycle, life_resp, life_yielded, life_requests>>

\* The consumer stops and closes the generator while it holds an event:
\* gen_step ends at the yield of line 416.
LifeClose ==
  /\ life_pc = "suspended"
  /\ life_pc' = "closed"
  /\ UNCHANGED <<shareVars, cloudVars, lifeConf,
                 life_from_time, life_limit, life_offset, life_cycle,
                 life_resp, life_idx, life_seen, life_yielded, life_requests>>

\* The events of the page are through: while events, and lines 418-421.
LifePageEnd ==
  /\ life_pc = "events"
  /\ life_idx = Len(life_resp.list)
  /\ IF life_resp.list = <<>>
     THEN life_pc' = "done" /\ life_offset' = life_offset
     ELSE /\ life_offset' = life_offset + Len(life_resp.list)
          /\ life_pc' = IF life_offset' >= life_resp.count THEN "done"
                        ELSE "call"
  /\ life_idx' = 0
  /\ UNCHANGED <<shareVars, cloudVars, lifeConf,
                 life_from_time, life_limit, life_cycle,
                 life_resp, life_seen, life_yielded, life_requests>>

(***************************************************************************)
(* CloudDriveApi.upload: the remote-upload protocol.  The service answers  *)
(* start_remote_upload with an upload_id and then sends, over the upload   *)
(* channel shared by the device, read_data, hash_data and status_changed   *)
(* replies, each with the upload_id it is about.                           *)
(***************************************************************************)
\* A reply of the channel: whose upload it is about, which of the oneof
\* fields is set ("" for none) and, for status_changed, the status.
Replies ==
  [upload_id : {"own", "other"}, which : {"", "read_data", "hash_data"},
   status : {0}]
     \cup [upload_id : {"own", "other"}, which : {"status_changed"},
           status : {UPLOAD_STATUS_FINISH, UPLOAD_STATUS_ERROR,
                     UPLOAD_STATUS_FATAL_ERROR, 2}]

Streams == UNION { [1..n -> Replies] : n \in 0..MaxStream }

\* Lines 503-566: what one reply does to the loop.  stopped is what
\* is_transfer_stopped answers, read how remote_read_data ends ("ok",
\* "fail" for success = False, "raise").  A failure of remote_hash_progress
\* is logged and the loop goes on.
AfterReply(reply, stopped, read) ==
  IF stopped THEN "cancelled"
  ELSE IF reply.which = "" THEN "continue"
  ELSE IF reply.upload_id # "own" THEN "continue"
  ELSE IF reply.which = "read_data"
       THEN (IF read = "raise" THEN "read_raised"
             ELSE IF read = "fail" THEN "read_failed"
             ELSE "continue")
  ELSE IF reply.which = "status_changed"
       THEN (IF reply.status = UPLOAD_STATUS_FINISH THEN "finish"
             ELSE IF reply.status \in {UPLOAD_STATUS_ERROR,
                                       UPLOAD_STATUS_FATAL_ERROR}
             THEN "error"
             ELSE "continue")
  ELSE "continue"

\* self.get_item(Path(target_path)): line 573.
GetItem(remote_item) == IF remote_item THEN "FileItem" ELSE "None"

UploadIdle ==
  /\ up_pc = "idle"
  /\ up_local_ok = TRUE
  /\ up_remote_item = FALSE
  /\ up_stream = <<>>
  /\ up_result = "pending"
  /\ up_finished = FALSE
  /\ up_cancels = 0

\* Lines 483-501: the check of local_path and start_remote_upload, which
\* returns (ok) or raises.
UploadBegin(ok) ==
  /\ up_pc = "new"
  /\ IF up_local_ok /\ ok
     THEN up_pc' = "stream" /\ up_result' = up_result
     ELSE up_pc' = "done" /\ up_result' = "None"
  /\ UNCHANGED <<shareVars, lifeVars, pluginVars, uploadConf,
                 up_stream, up_finished,
                 up_cancels>>

\* for reply in stream: one reply is taken and handled, lines 503-566; the
\* break at FINISH goes on to line 573.  Every other way out returns None.
\* The calls of remote_upload_control_cancel of lines 508 and 533 are inside
\* the try of line 503: when the call raises (cancel_raises), the except
\* branch of lines 566-571 makes the call once more, in a try that swallows
\* what it raises, and returns None as well.
UploadReply(stopped, read, cancel_raises) ==
  /\ up_pc = "stream"
  /\ up_stream # <<>>
  /\ LET after == AfterReply(Head(up_stream), stopped, read)
     IN /\ up_pc' = IF after = "continue" THEN "stream" ELSE "done"
        /\ up_result' = IF after = "continue" THEN up_result
                        ELSE IF after = "finish" THEN GetItem(up_remote_item)
                        ELSE "None"
        /\ up_finished' = (up_finished \/ after = "finish")
        /\ up_cancels' = IF after \in {"cancelled", "read_raised"}
                         THEN up_cancels + (IF cancel_raises THEN 2 ELSE 1)
                         ELSE up_cancels
  /\ up_stream' = Tail(up_stream)
  /\ UNCHANGED <<shareVars, lifeVars, pluginVars, uploadConf>>

\* The stream is exhausted: the for loop ends and line 573 is reached.
UploadStreamEnds ==
  /\ up_pc = "stream"
  /\ up_stream = <<>>
  /\ up_pc' = "done"
  /\ up_result' = GetItem(up_remote_item)
  /\ UNCHANGED <<shareVars, lifeVars, pluginVars, uploadConf,
                 up_stream, up_finished,
                 up_cancels>>

\* Opening or reading the stream, or a step of the loop other than the
\* calls modelled above, raises: lines 566-572, with the one call of
\* remote_upload_control_cancel of line 569.
UploadStreamRaises ==
  /\ up_pc = "stream"
  /\ up_pc' = "done"
  /\ up_result' = "None"
  /\ up_cancels' = up_cancels + 1
  /\ UNCHANGED <<shareVars, lifeVars, pluginVars, uploadConf,
                 up_stream, up_finished>>

(***************************************************************************)
(* CloudDriveDisk: the plugin that owns the client and the CloudDriveApi   *)
(* built on it.  Clients are numbered in the order they are created.       *)
(***************************************************************************)
\* The storage operations of get_module.
StorageOps ==
  {"list_files", "any_files", "download_file", "upload_file", "delete_file",
   "rename_file", "get_file_item", "get_parent_item", "snapshot_storage",
   "storage_usage", "support_transtype", "create_folder", "exists",
   "get_item"}

\* A config that is empty or None, or one with its enabled flag, with a
\* username and a password that are empty or not, and with host and username
\* being strings or not.
Configs ==
  {[empty |-> TRUE, enabled |-> FALSE, username |-> FALSE,
    password |-> FALSE, strings |-> TRUE]}
     \cup [empty : {FALSE}, enabled : BOOLEAN, username : BOOLEAN,
           password : BOOLEAN, strings : {TRUE}]
     \cup [empty : {FALSE}, enabled : BOOLEAN, username : {FALSE},
           password : {FALSE}, strings : {FALSE}]

\* What a storage operation returns when the storage is not the plugin's or
\* _clouddrive_api is None: lines 252-253, 285-286, 314-315, 380-382, ...
NotReady(op, own) ==
  IF op = "list_files" THEN "[]"
  ELSE IF op = "exists" /\ own THEN "False"
  ELSE "None"

\* How often the operation tests _clouddrive_api before it uses it: exists
\* goes through get_item and get_file_item, get_item through get_file_item.
Guards(op) == IF op \in {"exists", "get_item"} THEN 2 ELSE 1

\* The operation calls the client through the api: all do but
\* support_transtype, which returns the api's transtype attribute.
TouchesClient(op) == op # "support_transtype"

\* The operations that read self._clouddrive_api anew for each listing of a
\* directory: lines 261, 289 and 449.
ManyCalls(op) == op \in {"list_files", "any_files", "snapshot_storage"}

\* An AttributeError on a _clouddrive_api found None is caught: the try of
\* __snapshot_file, lines 439-462, which the first use (line 464) is outside.
Swallows(op, first) == op = "snapshot_storage" /\ ~first

\* The CloudDriveApi built on a _client read as None (line 82).
WrapsNone == -1

NoOp == [op |-> "", own |-> FALSE, ready |-> FALSE, result |-> "",
         touched |-> FALSE]

\* The calls of init_plugin, stop_service and the storage operations take no
\* lock: up to MaxThreads of them are under way at a time, each in a slot.
Slots == 1..MaxThreads

\* A slot with no call in it.  A call keeps what it still needs of what it
\* read: username and password of its config until it has assigned them
\* (lines 62-63), the client it created, or read from _client, until it has
\* used it (lines 74, 75, 77, 82, 88, 498), and for a storage operation its
\* name, the tests of _clouddrive_api still to come, whether it called a
\* client and whether it is at its first use of the api.
NoCall == [kind |-> "idle", pc |-> "idle", username |-> FALSE,
           password |-> FALSE, client |-> 0, op |-> "", guards |-> 0,
           touched |-> FALSE, first |-> TRUE]

Busy(s) == plug_calls[s].kind # "idle"

\* A call begins in the first slot that has none (the slots are alike), and
\* at most MaxCalls calls are made.
Free(s) ==
  /\ plug_begun < MaxCalls
  /\ ~Busy(s)
  /\ \A r \in Slots : r < s => Busy(r)

\* A call begins in slot s while another call is under way.
Overlaps(s) == \E r \in Slots \ {s} : Busy(r)

\* A call has begun in slot s, while another call is under way or not.
Begun(s) ==
  /\ plug_begun' = plug_begun + 1
  /\ plug_overlap' = (plug_overlap \/ Overlaps(s))

\* The call in slot s is at pc, of init_plugin, stop_service or a storage
\* operation.
At(s, kind, step) == plug_calls[s].kind = kind /\ plug_calls[s].pc = step

\* The call in slot s goes on to pc.
Goto(s, step) == plug_calls' = [plug_calls EXCEPT ![s].pc = step]

\* The class attributes of lines 30-37.
PluginNew ==
  /\ plug_enabled = FALSE
  /\ plug_username = FALSE
  /\ plug_password = FALSE
  /\ plug_client = 0
  /\ plug_api = 0
  /\ plug_clients = 0
  /\ plug_authed = {}
  /\ plug_closed = {}
  /\ plug_last = "new"
  /\ plug_op = NoOp
  /\ plug_calls = [s \in Slots |-> NoCall]
  /\ plug_begun = 0
  /\ plug_overlap = FALSE

\* The init_plugin or stop_service of slot s returns, or raises.
InitEnds(s, how) ==
  /\ plug_calls' = [plug_calls EXCEPT ![s] = NoCall]
  /\ plug_last' = how

\* init_plugin(config), lines 43-61: an empty config returns at once; else
\* _enabled is set, and host and username are stripped, which raises when
\* one of them is no string.
InitPlugin(s, config) ==
  /\ Free(s)
  /\ \/ /\ config.empty
        /\ UNCHANGED <<plug_enabled, plug_last, plug_calls, plug_begun,
                       plug_overlap>>
     \/ /\ ~config.empty /\ ~config.strings
        /\ plug_enabled' = config.enabled
        /\ plug_last' = "raised"
        /\ Begun(s)
        /\ UNCHANGED plug_calls
     \/ /\ ~config.empty /\ config.strings
        /\ plug_enabled' = config.enabled
        /\ plug_calls' = [plug_calls EXCEPT
                            ![s] = [NoCall EXCEPT !.kind = "init",
                                                  !.pc = "username",
                                                  !.username = config.username,
                                                  !.password = config.password]]
        /\ Begun(s)
        /\ UNCHANGED plug_last
  /\ plug_op' = NoOp
  /\ UNCHANGED <<shareVars, lifeVars, uploadVars, plug_username,
                 plug_password, plug_client, plug_api, plug_clients,
                 plug_authed, plug_closed>>

\* self._username = (config.get("username") or "").strip(): line 62.
InitUsername(s) ==
  /\ At(s, "init", "username")
  /\ plug_username' = plug_calls[s].username
  /\ plug_calls' = [plug_calls EXCEPT ![s].pc = "password",
                                      ![s].username = FALSE]
  /\ plug_op' = NoOp
  /\ UNCHANGED <<shareVars, lifeVars, uploadVars, plug_enabled,
                 plug_password, plug_client, plug_api, plug_clients,
                 plug_authed, plug_closed, plug_last, plug_begun,
                 plug_overlap>>

\* self._password = config.get("password") or "": line 63.
InitPassword(s) ==
  /\ At(s, "init", "password")
  /\ plug_password' = plug_calls[s].password
  /\ plug_calls' = [plug_calls EXCEPT ![s].pc = "reset_client",
                                      ![s].password = FALSE]
  /\ plug_op' = NoOp
  /\ UNCHANGED <<shareVars, lifeVars, uploadVars, plug_enabled,
                 plug_username, plug_client, plug_api, plug_clients,
                 plug_authed, plug_closed, plug_last, plug_begun,
                 plug_overlap>>

\* self._client = None: line 65.
InitResetClient(s) ==
  /\ At(s, "init", "reset_client")
  /\ plug_client' = 0
  /\ Goto(s, "reset_api")
  /\ plug_op' = NoOp
  /\ UNCHANGED <<shareVars, lifeVars, uploadVars, plug_enabled,
                 plug_username, plug_password, plug_api, plug_clients,
                 plug_authed, plug_closed, plug_last, plug_begun,
                 plug_overlap>>

\* self._clouddrive_api = None: line 66.
InitResetApi(s) ==
  /\ At(s, "init", "reset_api")
  /\ plug_api' = 0
  /\ Goto(s, "if_enabled")
  /\ plug_op' = NoOp
  /\ UNCHANGED <<shareVars, lifeVars, uploadVars, plug_enabled,
                 plug_username, plug_password, plug_client, plug_clients,
                 plug_authed, plug_closed, plug_last, plug_begun,
                 plug_overlap>>

\* if not self._enabled: return, lines 67-68, on what _enabled holds now.
InitIfEnabled(s) ==
  /\ At(s, "init", "if_enabled")
  /\ IF plug_enabled
     THEN Goto(s, "if_username") /\ UNCHANGED plug_last
     ELSE InitEnds(s, "disabled")
  /\ plug_op' = NoOp
  /\ UNCHANGED <<shareVars, lifeVars, uploadVars, plug_enabled,
                 plug_username, plug_password, plug_client, plug_api,
                 plug_clients, plug_authed, plug_closed, plug_begun,
                 plug_overlap>>

\* if not self._username ...: return, lines 69-71, on what _username holds
\* now.
InitIfUsername(s) ==
  /\ At(s, "init", "if_username")
  /\ IF plug_username
     THEN Goto(s, "if_password") /\ UNCHANGED plug_last
     ELSE InitEnds(s, "no_credentials")
  /\ plug_op' = NoOp
  /\ UNCHANGED <<shareVars, lifeVars, uploadVars, plug_enabled,
                 plug_username, plug_password, plug_client, plug_api,
                 plug_clients, plug_authed, plug_closed, plug_begun,
                 plug_overlap>>

\* ... or not self._password: return, lines 69-71, on what _password holds
\* now.
InitIfPassword(s) ==
  /\ At(s, "init", "if_password")
  /\ IF plug_password
     THEN Goto(s, "create") /\ UNCHANGED plug_last
     ELSE InitEnds(s, "no_credentials")
  /\ plug_op' = NoOp
  /\ UNCHANGED <<shareVars, lifeVars, uploadVars, plug_enabled,
                 plug_username, plug_password, plug_client, plug_api,
                 plug_clients, plug_authed, plug_closed, plug_begun,
                 plug_overlap>>

\* CloudDriveClient(address), line 74: the constructor returns a client, or
\* raises.
InitCreate(s, ok) ==
  /\ At(s, "init", "create")
  /\ IF ok
     THEN /\ plug_clients < MaxClients
          /\ plug_clients' = plug_clients + 1
          /\ plug_calls' = [plug_calls EXCEPT ![s].pc = "store_client",
                                              ![s].client = plug_clients + 1]
     ELSE /\ Goto(s, "except")
          /\ UNCHANGED plug_clients
  /\ plug_op' = NoOp
  /\ UNCHANGED <<shareVars, lifeVars, uploadVars, plug_enabled,
                 plug_username, plug_password, plug_client, plug_api,
                 plug_authed, plug_closed, plug_last, plug_begun,
                 plug_overlap>>

\* self._client = <the client created>: line 74.
InitStoreClient(s) ==
  /\ At(s, "init", "store_client")
  /\ plug_client' = plug_calls[s].client
  /\ plug_calls' = [plug_calls EXCEPT ![s].pc = "auth_call", ![s].client = 0]
  /\ plug_op' = NoOp
  /\ UNCHANGED <<shareVars, lifeVars, uploadVars, plug_enabled,
                 plug_username, plug_password, plug_api, plug_clients,
                 plug_authed, plug_closed, plug_last, plug_begun,
                 plug_overlap>>

\* self._client.authenticate(...), line 75, is called: on the client
\* _client holds now, and a _client found None raises AttributeError.
InitAuthCall(s) ==
  /\ At(s, "init", "auth_call")
  /\ IF plug_client = 0
     THEN Goto(s, "except")
     ELSE plug_calls' = [plug_calls EXCEPT ![s].pc = "auth",
                                           ![s].client = plug_client]
  /\ plug_op' = NoOp
  /\ UNCHANGED <<shareVars, lifeVars, uploadVars, plug_enabled,
                 plug_username, plug_password, plug_client, plug_api,
                 plug_clients, plug_authed, plug_closed, plug_last,
                 plug_begun, plug_overlap>>

\* How the call of authenticate ends.
AuthOutcomes == {"true", "false", "raises"}

\* authenticate answers, or raises.
InitAuthReturns(s, outcome) ==
  /\ At(s, "init", "auth")
  /\ plug_authed' = IF outcome = "true"
                    THEN plug_authed \cup {plug_calls[s].client}
                    ELSE plug_authed
  /\ plug_calls' = [plug_calls EXCEPT
                      ![s].client = 0,
                      ![s].pc = CASE outcome = "true" -> "build_api"
                                  [] outcome = "false" -> "close_call"
                                  [] OTHER -> "except"]
  /\ plug_op' = NoOp
  /\ UNCHANGED <<shareVars, lifeVars, uploadVars, plug_enabled,
                 plug_username, plug_password, plug_client, plug_api,
                 plug_clients, plug_closed, plug_last, plug_begun,
                 plug_overlap>>

\* self._client.close() after a failed authentication, line 77, is called:
\* _client is read and close called on the client it holds now; a _client
\* found None raises AttributeError and leads to the except branch.
InitCloseCall(s) ==
  /\ At(s, "init", "close_call")
  /\ IF plug_client = 0
     THEN Goto(s, "except")
     ELSE plug_calls' = [plug_calls EXCEPT ![s].pc = "close",
                                           ![s].client = plug_client]
  /\ plug_op' = NoOp
  /\ UNCHANGED <<shareVars, lifeVars, uploadVars, plug_enabled,
                 plug_username, plug_password, plug_client, plug_api,
                 plug_clients, plug_authed, plug_closed, plug_last,
                 plug_begun, plug_overlap>>

\* close() of line 77 closes the client the call read, whatever _client
\* holds by now, and returns, or raises, which leads to the except branch.
InitClose(s, raises) ==
  /\ At(s, "init", "close")
  /\ plug_closed' = plug_closed \cup {plug_calls[s].client}
  /\ plug_calls' = [plug_calls EXCEPT
                      ![s].client = 0,
                      ![s].pc = IF raises THEN "except" ELSE "clear"]
  /\ plug_op' = NoOp
  /\ UNCHANGED <<shareVars, lifeVars, uploadVars, plug_enabled,
                 plug_username, plug_password, plug_client, plug_api,
                 plug_clients, plug_authed, plug_last, plug_begun,
                 plug_overlap>>

\* self._client = None; return: lines 78-79.
InitClear(s) ==
  /\ At(s, "init", "clear")
  /\ plug_client' = 0
  /\ InitEnds(s, "auth_failed")
  /\ plug_op' = NoOp
  /\ UNCHANGED <<shareVars, lifeVars, uploadVars, plug_enabled,
                 plug_username, plug_password, plug_api, plug_clients,
                 plug_authed, plug_closed, plug_begun, plug_overlap>>

\* CloudDriveApi(self._client, ...), lines 80-83 right of the assignment:
\* _client is read and the api built on what it holds now.
InitBuildApi(s) ==
  /\ At(s, "init", "build_api")
  /\ plug_calls' = [plug_calls EXCEPT ![s].pc = "wrap",
                                      ![s].client = plug_client]
  /\ plug_op' = NoOp
  /\ UNCHANGED <<shareVars, lifeVars, uploadVars, plug_enabled,
                 plug_username, plug_password, plug_client, plug_api,
                 plug_clients, plug_authed, plug_closed, plug_last,
                 plug_begun, plug_overlap>>

\* self._clouddrive_api = <the api built>: line 81.
InitWrap(s) ==
  /\ At(s, "init", "wrap")
  /\ plug_api' = IF plug_calls[s].client = 0 THEN WrapsNone
                 ELSE plug_calls[s].client
  /\ InitEnds(s, "ready")
  /\ plug_op' = NoOp
  /\ UNCHANGED <<shareVars, lifeVars, uploadVars, plug_enabled,
                 plug_username, plug_password, plug_client, plug_clients,
                 plug_authed, plug_closed, plug_begun, plug_overlap>>

\* except Exception: if self._client, lines 84-86.
InitExcept(s) ==
  /\ At(s, "init", "except")
  /\ IF plug_client = 0
     THEN InitEnds(s, "exception")
     ELSE Goto(s, "except_close_call") /\ UNCHANGED plug_last
  /\ plug_op' = NoOp
  /\ UNCHANGED <<shareVars, lifeVars, uploadVars, plug_enabled,
                 plug_username, plug_password, plug_client, plug_api,
                 plug_clients, plug_authed, plug_closed, plug_begun,
                 plug_overlap>>

\* self._client.close() in the except branch, lines 87-88, is called:
\* _client is read anew and close called on the client it holds now; the
\* AttributeError of a _client found None is passed over (lines 89-90).
InitExceptCloseCall(s) ==
  /\ At(s, "init", "except_close_call")
  /\ IF plug_client = 0
     THEN Goto(s, "except_clear")
     ELSE plug_calls' = [plug_calls EXCEPT ![s].pc = "except_close",
                                           ![s].client = plug_client]
  /\ plug_op' = NoOp
  /\ UNCHANGED <<shareVars, lifeVars, uploadVars, plug_enabled,
                 plug_username, plug_password, plug_client, plug_api,
                 plug_clients, plug_authed, plug_closed, plug_last,
                 plug_begun, plug_overlap>>

\* close() of line 88 closes the client the call read, whatever _client
\* holds by now; what it raises is passed over, lines 89-90.
InitExceptClose(s) ==
  /\ At(s, "init", "except_close")
  /\ plug_closed' = plug_closed \cup {plug_calls[s].client}
  /\ plug_calls' = [plug_calls EXCEPT ![s].client = 0,
                                      ![s].pc = "except_clear"]
  /\ plug_op' = NoOp
  /\ UNCHANGED <<shareVars, lifeVars, uploadVars, plug_enabled,
                 plug_username, plug_password, plug_client, plug_api,
                 plug_clients, plug_authed, plug_last, plug_begun,
                 plug_overlap>>

\* self._client = None: line 91.
InitExceptClear(s) ==
  /\ At(s, "init", "except_clear")
  /\ plug_client' = 0
  /\ InitEnds(s, "exception")
  /\ plug_op' = NoOp
  /\ UNCHANGED <<shareVars, lifeVars, uploadVars, plug_enabled,
                 plug_username, plug_password, plug_api, plug_clients,
                 plug_authed, plug_closed, plug_begun, plug_overlap>>

\* stop_service is called: if self._client, line 496.
StopService(s) ==
  /\ Free(s)
  /\ plug_calls' = [plug_calls EXCEPT
                      ![s] = [NoCall EXCEPT
                                !.kind = "stop",
                                !.pc = IF plug_client = 0 THEN "clear_api"
                                       ELSE "close_call"]]
  /\ Begun(s)
  /\ plug_op' = NoOp
  /\ UNCHANGED <<shareVars, lifeVars, uploadVars, plug_enabled,
                 plug_username, plug_password, plug_client, plug_api,
                 plug_clients, plug_authed, plug_closed, plug_last>>

\* self._client.close(), lines 497-498, is called: _client is read anew and
\* close called on the client it holds now; the AttributeError of a _client
\* found None is logged (lines 499-500).
StopCloseCall(s) ==
  /\ At(s, "stop", "close_call")
  /\ IF plug_client = 0
     THEN Goto(s, "clear_client")
     ELSE plug_calls' = [plug_calls EXCEPT ![s].pc = "close",
                                           ![s].client = plug_client]
  /\ plug_op' = NoOp
  /\ UNCHANGED <<shareVars, lifeVars, uploadVars, plug_enabled,
                 plug_username, plug_password, plug_client, plug_api,
                 plug_clients, plug_authed, plug_closed, plug_last,
                 plug_begun, plug_overlap>>

\* close() of line 498 closes the client the call read, whatever _client
\* holds by now; what it raises is logged, lines 499-500.
StopClose(s) ==
  /\ At(s, "stop", "close")
  /\ plug_closed' = plug_closed \cup {plug_calls[s].client}
  /\ plug_calls' = [plug_calls EXCEPT ![s].client = 0,
                                      ![s].pc = "clear_client"]
  /\ plug_op' = NoOp
  /\ UNCHANGED <<shareVars, lifeVars, uploadVars, plug_enabled,
                 plug_username, plug_password, plug_client, plug_api,
                 plug_clients, plug_authed, plug_last, plug_begun,
                 plug_overlap>>

\* close has returned or raised; self._client = None: line 501.
StopClearClient(s) ==
  /\ At(s, "stop", "clear_client")
  /\ plug_client' = 0
  /\ Goto(s, "clear_api")
  /\ plug_op' = NoOp
  /\ UNCHANGED <<shareVars, lifeVars, uploadVars, plug_enabled,
                 plug_username, plug_password, plug_api, plug_clients,
                 plug_authed, plug_closed, plug_last, plug_begun,
                 plug_overlap>>

\* Mutant: stop_service leaves _clouddrive_api as it is.
StopClearApi_KeepApi(s) ==
  /\ At(s, "stop", "clear_api")
  /\ InitEnds(s, "stopped")
  /\ plug_op' = NoOp
  /\ UNCHANGED <<shareVars, lifeVars, uploadVars, plug_enabled,
                 plug_username, plug_password, plug_client, plug_api,
                 plug_clients, plug_authed, plug_closed, plug_begun,
                 plug_overlap>>

\* self._clouddrive_api = None: line 502.
StopClearApi(s) ==
  /\ At(s, "stop", "clear_api")
  /\ plug_api' = 0
  /\ InitEnds(s, "stopped")
  /\ plug_op' = NoOp
  /\ UNCHANGED <<shareVars, lifeVars, uploadVars, plug_enabled,
                 plug_username, plug_password, plug_client, plug_clients,
                 plug_authed, plug_closed, plug_begun, plug_overlap>>

\* The storage operation call ends, in slot s: with what it returns when the
\* storage is not the plugin's or _clouddrive_api is None ("None", "[]",
\* "False"), with what the methods of the api gave it ("delegated"), or
\* with the AttributeError of a _clouddrive_api of None ("raised").
CallEnds(s, call, ready, result) ==
  /\ plug_op' = [op |-> call.op, own |-> call.kind = "op", ready |-> ready,
                 result |-> result, touched |-> call.touched]
  /\ plug_calls' = [plug_calls EXCEPT ![s] = NoCall]

\* A storage operation is called on a file item of the plugin's storage
\* (own) or of another, and tests _clouddrive_api: it returns at once when
\* the storage is not the plugin's or _clouddrive_api is None.
StorageOp(s, op, own) ==
  /\ Free(s)
  /\ LET call == [NoCall EXCEPT !.op = op,
                                !.kind = IF own THEN "op" ELSE "other"]
     IN IF ~own \/ plug_api = 0
        THEN CallEnds(s, call, FALSE, NotReady(op, own))
        ELSE /\ plug_calls' =
                  [plug_calls EXCEPT
                     ![s] = [call EXCEPT
                               !.guards = Guards(op) - 1,
                               !.pc = IF Guards(op) > 1 THEN "guard"
                                      ELSE "use"]]
             /\ plug_op' = NoOp
  /\ Begun(s)
  /\ UNCHANGED <<shareVars, lifeVars, uploadVars, plug_enabled,
                 plug_username, plug_password, plug_client, plug_api,
                 plug_clients, plug_authed, plug_closed, plug_last>>

\* The test of _clouddrive_api of the method the operation goes through:
\* get_item (line 391), get_file_item (line 403).
OpGuard(s) ==
  /\ At(s, "op", "guard")
  /\ IF plug_api = 0
     THEN CallEnds(s, plug_calls[s], FALSE, NotReady(plug_calls[s].op, TRUE))
     ELSE /\ plug_calls' =
               [plug_calls EXCEPT
                  ![s].guards = @ - 1,
                  ![s].pc = IF plug_calls[s].guards > 1 THEN "guard"
                            ELSE "use"]
          /\ plug_op' = NoOp
  /\ UNCHANGED <<shareVars, lifeVars, uploadVars, plug_enabled,
                 plug_username, plug_password, plug_client, plug_api,
                 plug_clients, plug_authed, plug_closed, plug_last,
                 plug_begun, plug_overlap>>

\* self._clouddrive_api.<method>(...): _clouddrive_api is read again and the
\* method called.  A _clouddrive_api found None now raises AttributeError,
\* which ends the operation unless it is caught, and then the operation
\* returns or goes on to the next directory; the method calls the client the
\* api wraps, unless it has none to call (transtype, an upload whose local
\* file is missing, an api built on None).
OpUse(s, local_missing) ==
  /\ At(s, "op", "use")
  /\ LET call == plug_calls[s]
     IN IF plug_api = 0
        THEN IF Swallows(call.op, call.first)
             THEN \/ CallEnds(s, call, TRUE, "delegated")
                  \/ UNCHANGED plug_calls /\ plug_op' = NoOp
             ELSE CallEnds(s, call, TRUE, "raised")
        ELSE IF \/ ~TouchesClient(call.op)
                \/ call.op = "upload_file" /\ local_missing
        THEN CallEnds(s, call, TRUE, "delegated")
        ELSE /\ plug_calls' =
                  [plug_calls EXCEPT ![s].pc = "call",
                                     ![s].touched = @ \/ plug_api > 0]
             /\ plug_op' = NoOp
  /\ UNCHANGED <<shareVars, lifeVars, uploadVars, plug_enabled,
                 plug_username, plug_password, plug_client, plug_api,
                 plug_clients, plug_authed, plug_closed, plug_last,
                 plug_begun, plug_overlap>>

\* The method of the api returns: the operation returns what it got, or, a
\* listing of a directory having come back, goes on to the next (more).
OpReturns(s, more) ==
  /\ At(s, "op", "call")
  /\ IF more /\ ManyCalls(plug_calls[s].op)
     THEN /\ plug_calls' = [plug_calls EXCEPT ![s].pc = "use",
                                              ![s].first = FALSE]
          /\ plug_op' = NoOp
     ELSE CallEnds(s, plug_calls[s], TRUE, "delegated")
  /\ UNCHANGED <<shareVars, lifeVars, uploadVars, plug_enabled,
                 plug_username, plug_password, plug_client, plug_api,
                 plug_clients, plug_authed, plug_closed, plug_last,
                 plug_begun, plug_overlap>>

\* The components beside the share crawler, not in use.
OtherInit == LifeIdle /\ UploadIdle /\ PluginNew

\* The generator object before its first next().
CrawlInit ==
  /\ futures = <<>>
  /\ work_queue = <<>>
  /\ pending_futures = {}
  /\ cycler = 0
  /\ pc = "start"
  /\ cur = 0
  /\ file_idx = 0
  /\ sub_idx = 0
  /\ to_cancel = {}
  /\ yielded = <<>>
  /\ consumer_error = NoError
  /\ late_starts = {}
  /\ not_started = {}
  /\ held_cancelled = {}
  /\ requests = <<>>

Init ==
  /\ tree \in Trees
  /\ server_cap \in {PageCap, NextPageLimit}
  /\ max_workers \in 1..MaxWorkers
  /\ CrawlInit
  /\ GateInit(DefaultSpeedMode, M1)
  /\ JobInit
  /\ OtherInit

(***************************************************************************)
(* The generator (the orchestrator's control loop)                         *)
(***************************************************************************)
\* The consumer's first next(): lines 242-245.
Start ==
  /\ pc = "start"
  /\ futures' = <<NewFuture(InitialApi(cycler), <<RootCid, <<>>, 0>>)>>
  /\ cycler' = (cycler + 1) % 2
  /\ work_queue' = <<1>>
  /\ pending_futures' = {1}
  /\ pc' = "wait"
  /\ UNCHANGED <<gateVars, jobVars, otherVars, requests, late_starts,
                 not_started, held_cancelled, to_cancel, sub_idx,
                 tree, server_cap, max_workers, cur, file_idx, yielded,
                 consumer_error>>

\* Mutant: the future taken stays in pending_futures.
TakeResult_KeepPending(i) ==
  /\ pc = "wait"
  /\ i \in pending_futures
  /\ futures[i].state = "FINISHED"
  /\ futures[i].exception = NoError
  /\ cur' = i
  /\ file_idx' = 0
  /\ pc' = "process"
  /\ sub_idx' = 0
  /\ UNCHANGED <<gateVars, jobVars, otherVars, requests, late_starts,
                 not_started, held_cancelled, to_cancel,
                 tree, server_cap, max_workers, futures,
                 work_queue, pending_futures, cycler, yielded, consumer_error>>

\* as_completed hands over some completed future of pending_futures; its
\* result() returns: lines 247-250.
TakeResult(i) ==
  /\ pc = "wait"
  /\ i \in pending_futures
  /\ futures[i].state = "FINISHED"
  /\ futures[i].exception = NoError
  /\ pending_futures' = pending_futures \ {i}
  /\ cur' = i
  /\ file_idx' = 0
  /\ pc' = "process"
  /\ sub_idx' = 0
  /\ UNCHANGED <<gateVars, jobVars, otherVars, requests, late_starts,
                 not_started, held_cancelled, to_cancel,
                 tree, server_cap, max_workers, futures, work_queue, cycler,
                 yielded, consumer_error>>

\* yield file_info: lines 251-252.  The generator is suspended afterwards.
YieldFile ==
  /\ pc = "process"
  /\ file_idx < Len(futures[cur].files)
  /\ yielded' = Append(yielded, futures[cur].files[file_idx + 1])
  /\ file_idx' = file_idx + 1
  /\ pc' = "suspended"
  /\ UNCHANGED <<gateVars, jobVars, otherVars, requests, late_starts,
                 not_started, held_cancelled, to_cancel, sub_idx,
                 tree, server_cap, max_workers, futures, work_queue,
                 pending_futures, cycler, cur, consumer_error>>

\* The consumer asks for the next record.
ConsumerNext ==
  /\ pc = "suspended"
  /\ pc' = "process"
  /\ UNCHANGED <<gateVars, jobVars, otherVars, requests, late_starts,
                 not_started, held_cancelled, to_cancel, sub_idx,
                 tree, server_cap, max_workers, futures, work_queue,
                 pending_futures, cycler, cur, file_idx, yielded,
                 consumer_error>>

\* Mutant: the loop over the files is left before every file was yielded.
SubmitTask_Early ==
  /\ pc = "process"
  /\ sub_idx < Len(futures[cur].subdirs)
  /\ LET task == futures[cur].subdirs[sub_idx + 1]
     IN /\ futures' = Append(futures, NewFuture(ApiToUse(task[3], cycler), task))
        /\ cycler' = CyclerAfter(task[3], cycler)
  /\ work_queue' = Append(work_queue, Len(futures) + 1)
  /\ pending_futures' = pending_futures \cup {Len(futures) + 1}
  /\ sub_idx' = sub_idx + 1
  /\ UNCHANGED <<gateVars, jobVars, otherVars, requests, late_starts,
                 not_started, held_cancelled,
                 tree, server_cap, max_workers, pc, cur, file_idx, yielded,
                 consumer_error, to_cancel>>

\* One turn of for task_args in subdirs: lines 253-260.  executor.submit
\* queues the task, and the pool's threads go on between two turns.
SubmitTask ==
  /\ pc = "process"
  /\ file_idx = Len(futures[cur].files)
  /\ sub_idx < Len(futures[cur].subdirs)
  /\ LET task == futures[cur].subdirs[sub_idx + 1]
     IN /\ futures' = Append(futures, NewFuture(ApiToUse(task[3], cycler), task))
        /\ cycler' = CyclerAfter(task[3], cycler)
  /\ work_queue' = Append(work_queue, Len(futures) + 1)
  /\ pending_futures' = pending_futures \cup {Len(futures) + 1}
  /\ sub_idx' = sub_idx + 1
  /\ UNCHANGED <<gateVars, jobVars, otherVars, requests, late_starts,
                 not_started, held_cancelled,
                 tree, server_cap, max_workers, pc, cur, file_idx, yielded,
                 consumer_error, to_cancel>>

\* Mutant: the page is left while files of it are not yet yielded.
EndOfPage_Early ==
  /\ pc = "process"
  /\ sub_idx = Len(futures[cur].subdirs)
  /\ pc' = "wait"
  /\ UNCHANGED <<gateVars, jobVars, otherVars, requests, late_starts,
                 not_started, held_cancelled,
                 tree, server_cap, max_workers, futures, work_queue,
                 pending_futures, cycler, cur, file_idx, sub_idx, yielded,
                 consumer_error, to_cancel>>

\* The loop over subdirs is over: break (line 266) and the next turn of the
\* while loop.
EndOfPage ==
  /\ pc = "process"
  /\ file_idx = Len(futures[cur].files)
  /\ sub_idx = Len(futures[cur].subdirs)
  /\ pc' = "wait"
  /\ UNCHANGED <<gateVars, jobVars, otherVars, requests, late_starts,
                 not_started, held_cancelled,
                 tree, server_cap, max_workers, futures, work_queue,
                 pending_futures, cycler, cur, file_idx, sub_idx, yielded,
                 consumer_error, to_cancel>>

\* Mutant: only a future whose work item is still in the queue is cancelled.
Cancel_OnlyQueued(fs, j) ==
  IF fs[j].state = "PENDING" /\ ~fs[j].held
  THEN [fs EXCEPT ![j].state = "CANCELLED"]
  ELSE fs

\* Mutant: cancelling also stops an execution that has started.
Cancel_AlsoRunning(fs, j) ==
  IF fs[j].state \in {"PENDING", "RUNNING"}
  THEN [fs EXCEPT ![j].state = "CANCELLED"]
  ELSE fs

\* f.cancel(): a PENDING future is cancelled, whether its work item is in the
\* queue or in the hands of a pool thread; a future that is running or has
\* finished is left as it is.
Cancel(fs, j) ==
  IF fs[j].state = "PENDING"
  THEN [fs EXCEPT ![j].state = "CANCELLED"]
  ELSE fs

\* Mutant: the generator raises a new error that wraps the one it caught.
Reraise_Wrapped(exc) == [kind |-> "RuntimeError", cause |-> exc]

\* The bare raise of line 265: the exception caught is raised again as it is.
Reraise(exc) == exc

\* Mutant: the failure is swallowed and the loop goes on.
ObserveFailure_Swallow(i) ==
  /\ pc = "wait"
  /\ i \in pending_futures
  /\ futures[i].state = "FINISHED"
  /\ futures[i].exception # NoError
  /\ pending_futures' = pending_futures \ {i}
  /\ cur' = i
  /\ not_started' = { j \in Futs : futures[j].state = "PENDING" }
  /\ UNCHANGED <<gateVars, jobVars, otherVars, requests, late_starts,
                 held_cancelled,
                 tree, server_cap, max_workers, futures, work_queue, cycler,
                 pc, file_idx, sub_idx, yielded, consumer_error, to_cancel>>

\* Mutant: the failed task is submitted again.
ObserveFailure_Retry(i) ==
  /\ pc = "wait"
  /\ i \in pending_futures
  /\ futures[i].state = "FINISHED"
  /\ futures[i].exception # NoError
  /\ futures' = Append(futures, NewFuture(futures[i].api, futures[i].task))
  /\ work_queue' = Append(work_queue, Len(futures) + 1)
  /\ pending_futures' = (pending_futures \ {i}) \cup {Len(futures) + 1}
  /\ cur' = i
  /\ UNCHANGED <<gateVars, jobVars, otherVars, requests, late_starts,
                 not_started, held_cancelled,
                 tree, server_cap, max_workers, cycler, pc, file_idx, sub_idx,
                 yielded, consumer_error, to_cancel>>

\* future.result() raises: lines 248-250 and 261.  The except branch is
\* entered with the future's exception; every future still in
\* pending_futures is to be cancelled.
ObserveFailure(i) ==
  /\ pc = "wait"
  /\ i \in pending_futures
  /\ futures[i].state = "FINISHED"
  /\ futures[i].exception # NoError
  /\ pending_futures' = pending_futures \ {i}
  /\ to_cancel' = pending_futures \ {i}
  /\ consumer_error' = Reraise(futures[i].exception)
  /\ cur' = i
  /\ pc' = "cancelling"
  /\ not_started' = { j \in Futs : futures[j].state = "PENDING" }
  /\ UNCHANGED <<gateVars, jobVars, otherVars, requests, late_starts,
                 held_cancelled,
                 tree, server_cap, max_workers, futures, work_queue, cycler,
                 file_idx, sub_idx, yielded>>

\* The exception a consumer throws into the generator.
ThrownError == [kind |-> "ConsumerError"]

\* generator.throw(exc) with an Exception while the generator is suspended at
\* the yield of line 252, which the try of line 249 encloses: the except
\* branch is entered with the consumer's exception.
ConsumerThrow ==
  /\ pc = "suspended"
  /\ to_cancel' = pending_futures
  /\ consumer_error' = Reraise(ThrownError)
  /\ pc' = "cancelling"
  /\ UNCHANGED <<gateVars, jobVars, otherVars, requests, late_starts,
                 not_started, held_cancelled,
                 tree, server_cap, max_workers, futures, work_queue,
                 pending_futures, cycler, cur, file_idx, sub_idx, yielded>>

\* One turn of for f in pending_futures: f.cancel(), lines 262-263.  The set
\* is gone through in an order of its own, and the pool's threads go on
\* between two turns.
CancelOne(j) ==
  /\ pc = "cancelling"
  /\ j \in to_cancel
  /\ futures' = Cancel(futures, j)
  /\ to_cancel' = to_cancel \ {j}
  /\ held_cancelled' = IF futures[j].held /\ futures[j].state = "PENDING"
                       THEN held_cancelled \cup {j}
                       ELSE held_cancelled
  /\ UNCHANGED <<gateVars, jobVars, otherVars, requests, late_starts,
                 not_started,
                 tree, server_cap, max_workers, work_queue, pending_futures,
                 cycler, pc, cur, file_idx, sub_idx, yielded, consumer_error>>

\* executor.shutdown(wait=False, cancel_futures=True), line 264, drains the
\* queue: one turn of its loop takes the head of the queue (get_nowait) and
\* cancels its future.  The pool's threads go on between two turns and may
\* take a work item themselves; an item the loop has taken is out of their
\* reach.
ShutdownDrain ==
  /\ pc = "cancelling"
  /\ to_cancel = {}
  /\ work_queue # <<>>
  /\ futures' = Cancel(futures, Head(work_queue))
  /\ work_queue' = Tail(work_queue)
  /\ UNCHANGED <<gateVars, jobVars, otherVars, requests, late_starts,
                 not_started, held_cancelled, tree, server_cap, max_workers,
                 pending_futures, cycler, pc, cur, file_idx, sub_idx, yielded,
                 consumer_error, to_cancel>>

\* The drain of line 264 finds the queue empty and shutdown returns; the
\* raise of line 265 leaves the with block: its __exit__ is
\* shutdown(wait=True).
PoolShutdown ==
  /\ pc = "cancelling"
  /\ to_cancel = {}
  /\ work_queue = <<>>
  /\ pc' = "exiting"
  /\ UNCHANGED <<gateVars, jobVars, otherVars, requests, late_starts,
                 not_started, held_cancelled, tree, server_cap, max_workers,
                 futures, work_queue, pending_futures, cycler, cur, file_idx,
                 sub_idx, yielded, consumer_error, to_cancel>>

\* The consumer closes the generator while it is suspended at the yield:
\* GeneratorExit is no Exception, so the except branch is skipped and the
\* with block's __exit__ runs shutdown(wait=True) with nothing cancelled.
ConsumerClose ==
  /\ pc = "suspended"
  /\ pc' = "closing"
  /\ UNCHANGED <<gateVars, jobVars, otherVars, requests, late_starts,
                 not_started, held_cancelled,
                 tree, server_cap, max_workers, futures, work_queue,
                 pending_futures, cycler, cur, file_idx, sub_idx, yielded,
                 consumer_error, to_cancel>>

\* ThreadPoolExecutor.__exit__: shutdown(wait=True) joins the worker threads,
\* which run every work item still queued or held before they see the
\* sentinel.
PoolIdle == work_queue = <<>> /\ Held = {} /\ Running = {}

ExitJoin ==
  /\ pc \in {"exiting", "closing"}
  /\ PoolIdle
  /\ pc' = IF pc = "exiting" THEN "raised" ELSE "closed"
  /\ UNCHANGED <<gateVars, jobVars, otherVars, requests, late_starts,
                 not_started, held_cancelled,
                 tree, server_cap, max_workers, futures, work_queue,
                 pending_futures, cycler, cur, file_idx, sub_idx, yielded,
                 consumer_error, to_cancel>>

\* while pending_futures: is false; the with block ends and the generator
\* returns (StopIteration).
Finish ==
  /\ pc = "wait"
  /\ pending_futures = {}
  /\ pc' = "done"
  /\ UNCHANGED <<gateVars, jobVars, otherVars, requests, late_starts,
                 not_started, held_cancelled,
                 tree, server_cap, max_workers, futures, work_queue,
                 pending_futures, cycler, cur, file_idx, sub_idx, yielded,
                 consumer_error, to_cancel>>

(***************************************************************************)
(* The worker threads of the pool                                          *)
(***************************************************************************)
\* Mutant: the pool admits one job more than max_workers.
WorkerFree_OneMore == Cardinality(Running \cup Held) <= max_workers

\* Mutant: the pool runs one job fewer than max_workers.
WorkerFree_OneFewer == Cardinality(Running \cup Held) < max_workers - 1

\* ThreadPoolExecutor(max_workers=max_workers): a thread is free, or may still
\* be spawned, while fewer than max_workers threads hold or run a work item.
WorkerFree == Cardinality(Running \cup Held) < max_workers

\* resp = api_info.endpoint(payload): the listing call of future i.
Request(i) ==
  [fut |-> i, api_name |-> futures[i].api.api_name,
   payload |-> Payload(futures[i].task)]

\* work_item = work_queue.get() in a pool thread: a free thread takes the
\* head of the queue.  The future stays as it is, PENDING or CANCELLED, until
\* the thread calls work_item.run().
WorkerGet ==
  /\ work_queue # <<>>
  /\ WorkerFree
  /\ futures' = [futures EXCEPT ![Head(work_queue)].held = TRUE]
  /\ work_queue' = Tail(work_queue)
  /\ UNCHANGED <<gateVars, jobVars, otherVars, requests, late_starts,
                 not_started, held_cancelled, tree, server_cap, max_workers, pending_futures,
                 cycler, pc, cur, file_idx, sub_idx, yielded, consumer_error,
                 to_cancel>>

\* work_item.run() in the thread that holds the work item of future i:
\* future.set_running_or_notify_cancel() marks a PENDING future RUNNING, and
\* _job is about to be called; a CANCELLED future is dropped and the thread
\* is free again.
WorkerStart(i) ==
  /\ futures[i].held
  /\ futures' = [futures EXCEPT
                   ![i].held = FALSE,
                   ![i].state = IF @ = "PENDING" THEN "RUNNING" ELSE @]
  /\ late_starts' =
       IF futures[i].state = "PENDING"
          /\ \E j \in Futs : futures[j].exception # NoError
       THEN late_starts \cup {i}
       ELSE late_starts
  /\ UNCHANGED <<gateVars, jobVars, otherVars, requests, not_started,
                 held_cancelled, tree,
                 server_cap, max_workers, work_queue, pending_futures, cycler,
                 pc, cur, file_idx, sub_idx, yielded, consumer_error,
                 to_cancel>>

\* _job builds its payload and calls the endpoint: lines 188-201.
EndpointCall(i) ==
  /\ futures[i].state = "RUNNING"
  /\ ~futures[i].called
  /\ futures' = [futures EXCEPT ![i].called = TRUE]
  /\ requests' = Append(requests, Request(i))
  /\ UNCHANGED <<gateVars, jobVars, otherVars, late_starts, not_started,
                 held_cancelled,
                 tree, server_cap,
                 max_workers, work_queue, pending_futures, cycler, pc, cur,
                 file_idx, sub_idx, yielded, consumer_error, to_cancel>>

\* Mutant: the worker that ends a listing takes its future out of the
\* pending set itself.
JobReturn_RemovesPending(i) ==
  /\ futures[i].state = "RUNNING"
  /\ futures[i].called
  /\ LET task == futures[i].task
         resp == ListShare(tree, server_cap, Payload(task))
     IN futures' = [futures EXCEPT ![i].state = "FINISHED",
                                   ![i].files = files_found(task, resp),
                                   ![i].subdirs = subdirs_to_scan(task, resp)]
  /\ pending_futures' = pending_futures \ {i}
  /\ UNCHANGED <<gateVars, jobVars, otherVars, requests, late_starts,
                 not_started, held_cancelled,
                 tree, server_cap, max_workers, work_queue,
                 cycler, pc, cur, file_idx, sub_idx, yielded, consumer_error,
                 to_cancel>>

\* The listing call returns and check_response passes: lines 220-240.
JobReturn(i) ==
  /\ futures[i].state = "RUNNING"
  /\ futures[i].called
  /\ LET task == futures[i].task
         resp == ListShare(tree, server_cap, Payload(task))
     IN futures' = [futures EXCEPT ![i].state = "FINISHED",
                                   ![i].files = files_found(task, resp),
                                   ![i].subdirs = subdirs_to_scan(task, resp)]
  /\ UNCHANGED <<gateVars, jobVars, otherVars, requests, late_starts,
                 not_started, held_cancelled,
                 tree, server_cap, max_workers, work_queue, pending_futures,
                 cycler, pc, cur, file_idx, sub_idx, yielded, consumer_error,
                 to_cancel>>

\* The call or check_response raises: lines 203-219.
JobRaise(i, kind) ==
  /\ futures[i].state = "RUNNING"
  /\ futures[i].called
  /\ futures' = [futures EXCEPT
                   ![i].state = "FINISHED",
                   ![i].exception = JobError(kind, futures[i].api, futures[i].task)]
  /\ UNCHANGED <<gateVars, jobVars, otherVars, requests, late_starts,
                 not_started, held_cancelled,
                 tree, server_cap, max_workers, work_queue, pending_futures,
                 cycler, pc, cur, file_idx, sub_idx, yielded, consumer_error,
                 to_cancel>>

Next ==
  \/ Start
  \/ \E i \in Futs : TakeResult(i)
  \/ YieldFile
  \/ ConsumerNext
  \/ SubmitTask
  \/ EndOfPage
  \/ \E i \in Futs : ObserveFailure(i)
  \/ ConsumerThrow
  \/ \E j \in Futs : CancelOne(j)
  \/ ShutdownDrain
  \/ PoolShutdown
  \/ ConsumerClose
  \/ ExitJoin
  \/ Finish
  \/ WorkerGet
  \/ \E i \in Futs : WorkerStart(i)
  \/ \E i \in Futs : EndpointCall(i)
  \/ \E i \in Futs : JobReturn(i)
  \/ \E i \in Futs, kind \in ErrorKinds : JobRaise(i, kind)

Spec == Init /\ [][Next]_vars

(***************************************************************************)
(* The crawl when every listing call returns successfully and the consumer *)
(* keeps iterating: the pool's threads run, every call returns, the        *)
(* consumer asks again after each record.                                  *)
(***************************************************************************)
NextLive ==
  \/ Start
  \/ \E i \in Futs : TakeResult(i)
  \/ YieldFile
  \/ ConsumerNext
  \/ SubmitTask
  \/ EndOfPage
  \/ Finish
  \/ WorkerGet
  \/ \E i \in Futs : WorkerStart(i)
  \/ \E i \in Futs : EndpointCall(i)
  \/ \E i \in Futs : JobReturn(i)

Fairness ==
  /\ WF_vars(Start)
  /\ WF_vars(\E i \in Futs : TakeResult(i))
  /\ WF_vars(YieldFile)
  /\ WF_vars(ConsumerNext)
  /\ WF_vars(SubmitTask)
  /\ WF_vars(EndOfPage)
  /\ WF_vars(Finish)
  /\ WF_vars(WorkerGet)
  /\ WF_vars(\E i \in Futs : WorkerStart(i))
  /\ WF_vars(\E i \in Futs : EndpointCall(i))
  /\ WF_vars(\E i \in Futs : JobReturn(i))

SpecLive == Init /\ [][NextLive]_vars /\ Fairness

(***************************************************************************)
(* The crawl of one large directory: the root holds BigDirCount files and  *)
(* the service returns as many entries as limit asks for.                  *)
(***************************************************************************)
DigitChars == <<"0", "1", "2", "3", "4", "5", "6", "7", "8", "9">>

\* The decimal numeral of e: the raw name of entry e of the large directory.
RECURSIVE DecimalName(_)
DecimalName(e) ==
  IF e < 10 THEN <<DigitChars[e + 1]>>
  ELSE Append(DecimalName(e \div 10), DigitChars[(e % 10) + 1])

BigTree ==
  [n |-> BigDirCount,
   parent |-> [e \in 1..BigDirCount |-> RootCid],
   is_dir |-> [e \in 1..BigDirCount |-> FALSE],
   name |-> [e \in 1..BigDirCount |-> DecimalName(e)]]

InitBig ==
  /\ tree = BigTree
  /\ server_cap = NextPageLimit
  /\ max_workers \in 1..MaxWorkers
  /\ CrawlInit
  /\ GateInit(DefaultSpeedMode, M1)
  /\ JobInit
  /\ OtherInit

SpecBig == InitBig /\ [][NextLive]_vars

(***************************************************************************)
(* One cooldown gate called by the worker threads assigned its endpoint;   *)
(* the crawl itself stands still.                                          *)
(***************************************************************************)
InitGate ==
  /\ CrawlInit
  /\ tree = [n |-> 0, parent |-> <<>>, is_dir |-> <<>>, name |-> <<>>]
  /\ server_cap = NextPageLimit
  /\ max_workers = MaxCallers
  /\ \E mode \in SpeedModes, api_name \in {M1, M2, F} :
        GateInit(mode, api_name)
  /\ JobInit
  /\ OtherInit

NextGate ==
  \/ \E w \in GateCallers : GateEnter(w)
  \/ \E w \in GateCallers : GateWake(w)
  \/ \E w \in GateCallers, ok \in BOOLEAN : GateCallEnds(w, ok)
  \/ Tick

SpecGate == InitGate /\ [][NextGate]_vars

(***************************************************************************)
(* The page chain of one directory, from its first page on.                *)
(***************************************************************************)
InitJob ==
  /\ tree = [n |-> 0, parent |-> <<>>, is_dir |-> <<>>, name |-> <<>>]
  /\ server_cap = NextPageLimit
  /\ max_workers = 1
  /\ CrawlInit
  /\ GateInit(DefaultSpeedMode, M1)
  /\ job_pc = "idle"
  /\ job_task \in FirstTasks
  /\ job_resp = [count |-> 0, list |-> <<>>]
  /\ job_out = NoOutput
  /\ job_pages = <<>>
  /\ OtherInit

NextJob ==
  \/ JobCall
  \/ JobParse
  \/ JobNextPage

SpecJob == InitJob /\ [][NextJob]_vars

(***************************************************************************)
(* One run of iter_life_behavior_once; the crawler stands still.           *)
(***************************************************************************)
\* The share crawler, not in use.
ShareIdle ==
  /\ tree = [n |-> 0, parent |-> <<>>, is_dir |-> <<>>, name |-> <<>>]
  /\ server_cap = NextPageLimit
  /\ max_workers = 1
  /\ CrawlInit
  /\ GateInit(DefaultSpeedMode, M1)
  /\ JobInit

InitLife ==
  /\ ShareIdle
  /\ UploadIdle
  /\ PluginNew
  /\ life_from_id \in {0, 1}
  /\ life_from_time \in {0, 2}
  /\ life_type \in {"", "upload_file"}
  /\ life_ignore_types \in {{}, {7}}
  /\ life_feed \in Feeds
  /\ life_cap \in {1, LifePageLimit}
  /\ life_extra \in {0, 1}
  /\ life_pc = "new"
  /\ life_limit = 0
  /\ life_offset = 0
  /\ life_cycle = 0
  /\ life_resp = [count |-> 0, list |-> <<>>]
  /\ life_idx = 0
  /\ life_seen = {}
  /\ life_yielded = <<>>
  /\ life_requests = <<>>

NextLife ==
  \/ LifeOpen
  \/ LifeCall
  \/ LifeCallRaises
  \/ LifeEvent
  \/ LifeResume
  \/ LifeClose
  \/ LifePageEnd

SpecLifeBehavior == InitLife /\ [][NextLife]_vars

(***************************************************************************)
(* One call of CloudDriveApi.upload.                                       *)
(***************************************************************************)
InitUpload ==
  /\ ShareIdle
  /\ LifeIdle
  /\ PluginNew
  /\ up_pc = "new"
  /\ up_local_ok \in BOOLEAN
  /\ up_remote_item \in BOOLEAN
  /\ up_stream \in Streams
  /\ up_result = "pending"
  /\ up_finished = FALSE
  /\ up_cancels = 0

NextUpload ==
  \/ \E ok \in BOOLEAN : UploadBegin(ok)
  \/ \E stopped \in BOOLEAN, read \in {"ok", "fail", "raise"},
        cancel_raises \in BOOLEAN :
        UploadReply(stopped, read, cancel_raises)
  \/ UploadStreamEnds
  \/ UploadStreamRaises

SpecUpload == InitUpload /\ [][NextUpload]_vars

(***************************************************************************)
(* The life of one CloudDriveDisk: init_plugin, stop_service and storage   *)
(* operations in any order, called by up to MaxThreads threads at a time.  *)
(***************************************************************************)
InitPluginLife ==
  /\ ShareIdle
  /\ LifeIdle
  /\ UploadIdle
  /\ PluginNew

NextPlugin ==
  \/ \E s \in Slots, config \in Configs : InitPlugin(s, config)
  \/ \E s \in Slots : InitUsername(s)
  \/ \E s \in Slots : InitPassword(s)
  \/ \E s \in Slots : InitResetClient(s)
  \/ \E s \in Slots : InitResetApi(s)
  \/ \E s \in Slots : InitIfEnabled(s)
  \/ \E s \in Slots : InitIfUsername(s)
  \/ \E s \in Slots : InitIfPassword(s)
  \/ \E s \in Slots, ok \in BOOLEAN : InitCreate(s, ok)
  \/ \E s \in Slots : InitStoreClient(s)
  \/ \E s \in Slots : InitAuthCall(s)
  \/ \E s \in Slots, outcome \in AuthOutcomes : InitAuthReturns(s, outcome)
  \/ \E s \in Slots : InitCloseCall(s)
  \/ \E s \in Slots, raises \in BOOLEAN : InitClose(s, raises)
  \/ \E s \in Slots : InitClear(s)
  \/ \E s \in Slots : InitBuildApi(s)
  \/ \E s \in Slots : InitWrap(s)
  \/ \E s \in Slots : InitExcept(s)
  \/ \E s \in Slots : InitExceptCloseCall(s)
  \/ \E s \in Slots : InitExceptClose(s)
  \/ \E s \in Slots : InitExceptClear(s)
  \/ \E s \in Slots : StopService(s)
  \/ \E s \in Slots : StopCloseCall(s)
  \/ \E s \in Slots : StopClose(s)
  \/ \E s \in Slots : StopClearClient(s)
  \/ \E s \in Slots : StopClearApi(s)
  \/ \E s \in Slots, op \in StorageOps, own \in BOOLEAN : StorageOp(s, op, own)
  \/ \E s \in Slots : OpGuard(s)
  \/ \E s \in Slots, local_missing \in BOOLEAN : OpUse(s, local_missing)
  \/ \E s \in Slots, more \in BOOLEAN : OpReturns(s, more)

SpecPlugin == InitPluginLife /\ [][NextPlugin]_vars

(***************************************************************************)
(* Reference recursive listing of a tree, written without the crawler.     *)
(***************************************************************************)
RECURSIVE RefPath(_, _)
RefPath(t, e) ==
  IF t.parent[e] = 0 THEN <<"/">> \o posix_escape_name(t.name[e])
  ELSE RefPath(t, t.parent[e]) \o <<"/">> \o posix_escape_name(t.name[e])

Leaves(t) == { e \in 1..t.n : ~t.is_dir[e] }

RefLeafPaths(t) == { RefPath(t, e) : e \in Leaves(t) }

YieldedPaths == { yielded[k].path : k \in 1..Len(yielded) }

YieldedIds == { yielded[k].id : k \in 1..Len(yielded) }

NoPathTwice ==
  \A j, k \in 1..Len(yielded) : j # k => yielded[j].path # yielded[k].path

NoEntryTwice ==
  \A j, k \in 1..Len(yielded) : j # k => yielded[j].id # yielded[k].id

\* No two entries of one directory have the same name after escaping.
SiblingNamesDistinct(t) ==
  \A d, e \in 1..t.n :
     (d # e /\ t.parent[d] = t.parent[e])
        => posix_escape_name(t.name[d]) # posix_escape_name(t.name[e])

Paginated == \E i \in Futs : futures[i].task[3] > 0

(***************************************************************************)
(* C1 as stated: a crawl that ends cleanly has yielded exactly the leaf    *)
(* paths of the reference listing, and no path more than once.             *)
(***************************************************************************)
C1_Original ==
  pc = "done" => (YieldedPaths = RefLeafPaths(tree) /\ NoPathTwice)

(***************************************************************************)
(* C1 (amended): a crawl that ends cleanly has yielded every leaf entry    *)
(* exactly once, the set of yielded paths is the set of leaf paths of the  *)
(* reference listing, and no path is yielded more than once provided no    *)
(* two entries of one directory have the same name after escaping.         *)
(***************************************************************************)
C1_Complete ==
  pc = "done" =>
     /\ YieldedPaths = RefLeafPaths(tree)
     /\ YieldedIds = Leaves(tree)
     /\ NoEntryTwice
     /\ SiblingNamesDistinct(tree) => NoPathTwice

\* A paginated crawl of a tree with a file in the root and one in a
\* subdirectory has ended cleanly.
C1_Witness ==
  /\ pc = "done"
  /\ Paginated
  /\ SiblingNamesDistinct(tree)
  /\ Len(yielded) >= 2
  /\ \E j, k \in 1..Len(yielded) :
        tree.parent[yielded[j].id] = 0 /\ tree.parent[yielded[k].id] # 0

(***************************************************************************)
(* Definitions shared by the claims about failures.                        *)
(***************************************************************************)
Failed(i) == futures[i].exception # NoError

\* The failures the orchestrator took from as_completed.
ObservedFailures == { i \in Futs : Failed(i) /\ i \notin pending_futures }

NotStarted(i) == futures[i].state \in {"PENDING", "CANCELLED"}

\* The file records the page of future i holds on the remote tree.
PageFiles(i) ==
  files_found(futures[i].task,
              ListShare(tree, server_cap, Payload(futures[i].task)))

\* The generator is in the except branch of lines 261-265, or past it.
Aborted == pc \in {"cancelling", "exiting", "raised"}

\* The loop of lines 262-263 and the shutdown of line 264 are over.
CancelDone == pc \in {"exiting", "raised"}

(***************************************************************************)
(* C2 as stated: when an execution has raised, no record of the page of an *)
(* execution that had not started at that moment is ever yielded.          *)
(***************************************************************************)
C2_Original ==
  \A i \in late_starts :
     \A k \in 1..Len(PageFiles(i)) : PageFiles(i)[k].id \notin YieldedIds

(***************************************************************************)
(* C2 (amended): once the orchestrator has taken a failed execution from   *)
(* as_completed, the generator is raising that error to the consumer, and  *)
(* no record of the page of an execution that had not started when the     *)
(* failure was taken is ever yielded: neither of one that was cancelled    *)
(* nor of one that a pool thread started afterwards (not started is judged *)
(* when the failure is observed, not when the execution raised).           *)
(***************************************************************************)
C2_FailFast ==
  /\ ObservedFailures # {} =>
        /\ Aborted
        /\ consumer_error # NoError
  /\ \A i \in not_started \cup { j \in Futs : NotStarted(j) } :
        \A k \in 1..Len(PageFiles(i)) : PageFiles(i)[k].id \notin YieldedIds

\* The error reached the consumer; of the executions that had not started
\* when the failure was taken, one was cancelled and another was started by
\* a pool thread afterwards and returned a page with a file.
C2_Witness ==
  /\ pc = "raised"
  /\ \E i \in Futs : Failed(i) /\ i \notin pending_futures
  /\ \E j, l \in not_started :
        /\ futures[j].state = "CANCELLED"
        /\ futures[l].state = "FINISHED" /\ futures[l].files # <<>>

\* Once the orchestrator has taken a failed execution, no execution of the
\* pending set that has not started starts to run.
NoStartOnceObserved ==
  ObservedFailures # {} =>
     \A i \in pending_futures :
        futures[i].state = "PENDING" => futures'[i].state # "RUNNING"

(***************************************************************************)
(* C3 as stated: when the orchestrator observes an execution that raised,  *)
(* it cancels every other execution of the pending set that has not        *)
(* started, so that none of them starts to run from then on; and the error *)
(* for the consumer is the error of the failed execution.                  *)
(***************************************************************************)
C3_Original == [][NoStartOnceObserved]_vars

\* What the generator has done once it has taken a failed execution: every
\* execution of the pending set whose cancel() was called is cancelled,
\* running or finished, and none is waiting to start once the loop is over;
\* a cancelled execution has issued no call; the error for the consumer is
\* the exception of the failed execution.
CancelledAndOriginalError ==
  /\ ObservedFailures # {} =>
        /\ Aborted
        /\ to_cancel \subseteq pending_futures
        /\ \A i \in pending_futures \ to_cancel : futures[i].state # "PENDING"
        /\ CancelDone => \A i \in pending_futures : futures[i].state # "PENDING"
        /\ cur \in ObservedFailures
        /\ ObservedFailures = {cur}
        /\ consumer_error = futures[cur].exception
  /\ \A i \in Futs :
        futures[i].state = "CANCELLED" =>
           /\ i \in pending_futures
           /\ ~futures[i].called
           /\ \A k \in 1..Len(requests) : requests[k].fut # i

\* One turn of the loop of lines 262-263: the execution whose cancel() is
\* called is cancelled when it has not started, whether its work item is in
\* the queue or in the hands of a pool thread, and is left as it is when it
\* has; no other execution is cancelled in that step, a cancelled execution
\* never starts, and an execution that has started is never cancelled: it
\* goes on to its end, and once the failure was taken nothing is yielded and
\* no task is submitted, so that its result is discarded.
CancelTurn ==
  /\ \A j \in to_cancel \ to_cancel' :
        /\ futures[j].state = "PENDING" => futures'[j].state = "CANCELLED"
        /\ futures[j].state # "PENDING" => futures'[j].state = futures[j].state
        /\ \A i \in Futs \ {j} : futures'[i] = futures[i]
  /\ \A i \in Futs :
        /\ futures[i].state = "CANCELLED" => futures'[i].state = "CANCELLED"
        /\ futures[i].state \in {"RUNNING", "FINISHED"}
              => futures'[i].state \in {"RUNNING", "FINISHED"}
  /\ Aborted => (yielded' = yielded /\ Len(futures') = Len(futures))

(***************************************************************************)
(* C3 (amended): when the orchestrator has taken a failed execution, it    *)
(* calls cancel on every execution left in the pending set, one after the  *)
(* other, and each one that has not started when its cancel is called is   *)
(* cancelled, also one whose work item a pool thread has taken from the    *)
(* queue already: an execution the loop has passed is not waiting to       *)
(* start, and when the loop is over none of the pending set is (each was   *)
(* cancelled, is running or has finished); a cancelled execution never     *)
(* starts and issues no call; an execution that a worker starts before the *)
(* loop reaches it is not cancelled and runs, and its result is discarded. *)
(* Only executions of the pending set are ever cancelled, and the error    *)
(* for the consumer is the exception of that failed execution itself.      *)
(***************************************************************************)
C3_CancelAndOriginalError ==
  /\ []CancelledAndOriginalError
  /\ [][CancelTurn]_vars

\* Two executions failed and the orchestrator took one of them; of the
\* executions that had not started then, a pool thread started one before
\* the loop reached it, and it made its call and failed in turn, and
\* another was cancelled while a pool thread held its work item; the
\* consumer has the error of the execution that was taken.
C3_Witness ==
  /\ pc = "raised"
  /\ \E i \in pending_futures \cap not_started :
        /\ futures[i].called
        /\ Failed(i) /\ futures[i].exception # consumer_error
  /\ \E j \in held_cancelled : futures[j].state = "CANCELLED"

(***************************************************************************)
(* C4 as stated: in the aborted path the error reaches the consumer        *)
(* without waiting for stragglers, i.e. whenever the generator is raising, *)
(* the step that hands the error to the consumer can be taken, also while  *)
(* another execution is still running.                                     *)
(***************************************************************************)
C4_ErrorWithoutWaiting == pc = "exiting" => ENABLED ExitJoin

NoneStartsAfterClose ==
  pc \in {"closing", "closed"} =>
     \A i \in Futs : futures[i].state = "PENDING" => futures[i]'.state # "RUNNING"

(***************************************************************************)
(* C5 as stated: once the consumer has closed the generator, no execution  *)
(* that was submitted and had not started begins to run (none issues its   *)
(* listing call).                                                          *)
(***************************************************************************)
C5_CloseCancelsQueued == [][NoneStartsAfterClose]_vars

EndsWhenPendingEmpty == (pc = "wait" /\ pending_futures = {}) => pc' = "done"

(***************************************************************************)
(* C6: when every listing call succeeds and the consumer keeps iterating,  *)
(* the stream eventually ends cleanly; it has ended only with the pending  *)
(* set empty, every execution finished and the execution processed last    *)
(* having produced no task; and with the pending set empty at the head of  *)
(* the loop the only step is the clean end.                                *)
(***************************************************************************)
C6_EventuallyDone ==
  /\ <>(pc = "done")
  /\ [](pc = "done" =>
          /\ pending_futures = {}
          /\ work_queue = <<>>
          /\ \A i \in Futs : futures[i].state = "FINISHED"
          /\ cur \in Futs /\ futures[cur].subdirs = <<>>)
  /\ [][EndsWhenPendingEmpty]_vars

\* A crawl of a tree with a subdirectory and a paginated listing, by a pool
\* of one worker, has ended cleanly.
C6_Witness ==
  /\ pc = "done"
  /\ max_workers = 1
  /\ Len(futures) >= 3
  /\ Paginated
  /\ Len(yielded) >= 1

(***************************************************************************)
(* C7: the stream never ends cleanly when an execution raised; when the    *)
(* generator has ended with an error, the consumer holds the error of an   *)
(* execution that raised, or the exception it threw into the generator     *)
(* itself.                                                                 *)
(***************************************************************************)
C7_NoCleanEndAfterFailure ==
  /\ pc = "done" => \A i \in Futs : ~Failed(i)
  /\ pc = "raised" =>
        /\ consumer_error # NoError
        /\ \/ consumer_error = ThrownError
           \/ \E i \in Futs : Failed(i) /\ consumer_error = futures[i].exception

\* The consumer received records and then the error.
C7_Witness ==
  /\ pc = "raised"
  /\ Len(yielded) >= 1
  /\ \E i \in Futs : Failed(i)

SameRequest(i, j) ==
  /\ futures[i].task[1] = futures[j].task[1]
  /\ futures[i].task[3] = futures[j].task[3]

NoneSubmittedAfterFailure == ObservedFailures # {} => Len(futures') = Len(futures)

(***************************************************************************)
(* C8: the request of a failed execution is never issued by another        *)
(* execution of the crawl, and once the orchestrator has taken a failure   *)
(* no execution is submitted.                                              *)
(***************************************************************************)
C8_NoRetry ==
  /\ [](\A i, j \in Futs : (Failed(i) /\ i # j) => ~SameRequest(i, j))
  /\ [][NoneSubmittedAfterFailure]_vars

\* A failed request was observed while other executions were pending, and
\* the crawl is over.
C8_Witness ==
  /\ pc = "raised"
  /\ Len(futures) >= 3
  /\ \E i \in Futs : Failed(i) /\ futures[i].task[3] > 0

IsContinuation(i) == futures[i].task[3] > 0

IsFirstPage(i) == futures[i].task[3] = 0

(***************************************************************************)
(* C9: every execution of a continuation task (offset > 0) has the         *)
(* fallback endpoint.                                                      *)
(***************************************************************************)
C9_ContinuationOnFallback ==
  \A i \in Futs : IsContinuation(i) => futures[i].api = snap_api_info

\* Two continuation tasks ran with a first-page task submitted between them.
C9_Witness ==
  \E i, j, k \in Futs :
     /\ i < j /\ j < k
     /\ IsContinuation(i) /\ IsFirstPage(j) /\ IsContinuation(k)
     /\ futures[i].state = "FINISHED" /\ futures[k].state = "FINISHED"
     /\ futures[i].api = snap_api_info /\ futures[k].api = snap_api_info

PoolEndpoints == { first_page_api_pool[k] : k \in DOMAIN first_page_api_pool }

(***************************************************************************)
(* C10 as stated: first-page tasks take their endpoint from the pool that  *)
(* holds the fallback at slot 6, and the fallback is the endpoint of the   *)
(* root task and of no other first-page task.                              *)
(***************************************************************************)
C10_Original ==
  \A i \in Futs :
     IsFirstPage(i) =>
        /\ futures[i].api \in PoolEndpoints
        /\ (futures[i].api = snap_api_info) <=> (i = 1)

FirstPageRank(i) == Cardinality({ j \in 1..i : IsFirstPage(j) })

(***************************************************************************)
(* C10 (amended): first-page tasks take their endpoint from the repeating  *)
(* sequence [M1, M2]: the k-th first-page task submitted, the root task    *)
(* being the first, has M1 when k is odd and M2 when k is even; the root   *)
(* task has M1 and no first-page task has the fallback.                    *)
(***************************************************************************)
C10_FirstPageEndpoints ==
  \A i \in Futs :
     IsFirstPage(i) =>
        /\ futures[i].api = repeating_pair[((FirstPageRank(i) - 1) % 2) + 1]
        /\ futures[i].api # snap_api_info
        /\ (i = 1 => futures[i].api = snap_app_http_info)

\* Three first-page tasks and a continuation task were submitted.
C10_Witness ==
  /\ Cardinality({ i \in Futs : IsFirstPage(i) }) >= 3
  /\ \E i \in Futs : IsContinuation(i)
  /\ futures[1].api = snap_app_http_info

\* i and j are first-page tasks submitted one after the other: no first-page
\* task was submitted between them (continuation tasks may have been).
ConsecutiveFirstPages(i, j) ==
  /\ i < j
  /\ IsFirstPage(i) /\ IsFirstPage(j)
  /\ \A k \in Futs : (i < k /\ k < j) => IsContinuation(k)

(***************************************************************************)
(* C11: first-page tasks take M1 and M2 in strict rotation, in submission  *)
(* order: two first-page tasks submitted one after the other never have    *)
(* the same mirror, whatever continuation tasks were submitted between     *)
(* them.                                                                   *)
(***************************************************************************)
C11_RoundRobin ==
  \A i, j \in Futs :
     ConsecutiveFirstPages(i, j) =>
        /\ {futures[i].api, futures[j].api}
              = {snap_app_http_info, snap_app_https_info}

\* Two first-page tasks below the root, one after the other, with a
\* continuation task submitted between them.
C11_Witness ==
  \E i, j, k \in Futs :
     /\ 1 < i /\ i < k /\ k < j
     /\ ConsecutiveFirstPages(i, j)
     /\ IsContinuation(k)
     /\ futures[i].api # futures[j].api

\* The offsets of the continuation tasks created for directory cid.
ContinuationOffsets(cid) ==
  { futures[i].task[3] : i \in { j \in Futs : IsContinuation(j)
                                              /\ futures[j].task[1] = cid } }

\* Every entry of the large directory was yielded, each exactly once.
AllBigYielded ==
  /\ Len(yielded) = BigDirCount
  /\ YieldedIds = 1..BigDirCount

(***************************************************************************)
(* C12 as stated: for a directory of 2500 entries, with the service        *)
(* returning up to limit entries per call, the continuation tasks created  *)
(* are exactly those at offsets 1000 and 2000, and all 2500 entries are    *)
(* yielded exactly once.                                                   *)
(***************************************************************************)
C12_Original ==
  pc = "done" =>
     /\ ContinuationOffsets(RootCid) = {FirstPageLimit, 2 * FirstPageLimit}
     /\ AllBigYielded

(***************************************************************************)
(* C12 (amended): for a directory of 2500 entries, with the service        *)
(* returning up to limit entries per call, the first page (limit 1000)     *)
(* returns 1000 entries and the one continuation task, at offset 1000 with *)
(* limit 7000, returns the remaining 1500: no continuation task is created *)
(* at offset 2000, and all 2500 entries are yielded exactly once.          *)
(***************************************************************************)
C12_OneContinuation ==
  /\ ContinuationOffsets(RootCid) \subseteq {FirstPageLimit}
  /\ \A i \in Futs : futures[i].state = "FINISHED" =>
        Len(futures[i].files) =
           IF IsContinuation(i) THEN BigDirCount - FirstPageLimit
           ELSE FirstPageLimit
  /\ pc = "done" =>
        /\ ContinuationOffsets(RootCid) = {FirstPageLimit}
        /\ \A i \in Futs : Payload(futures[i].task).limit =
              IF IsContinuation(i) THEN NextPageLimit ELSE FirstPageLimit
        /\ AllBigYielded

\* The crawl of the large directory has ended with both pages fetched.
C12_Witness ==
  /\ pc = "done"
  /\ tree.n = 2500
  /\ Len(futures) = 2
  /\ futures[2].task[3] = 1000
  /\ Len(yielded) = 2500

(***************************************************************************)
(* C13: at no moment are more than max_workers task executions in          *)
(* progress.  An execution is in progress from the moment a worker takes   *)
(* it to the moment its listing call returns or raises, the time it waits  *)
(* inside a cooldown gate included, however long that is.                  *)
(***************************************************************************)
C13_AtMostMaxWorkers == Cardinality(Running) <= max_workers

\* The pool is full and a further task waits in the queue for a free worker.
C13_Witness ==
  /\ max_workers = 2
  /\ Cardinality(Running) = max_workers
  /\ \E k \in 1..Len(work_queue) : futures[work_queue[k]].state = "PENDING"

Abs(x) == IF x < 0 THEN 0 - x ELSE x

\* The callers whose request has been issued and has not returned.
Calling == { w \in GateCallers : gpc[w] = "calling" }

\* A call that started after `before` calls of the gate had ended started at
\* least the cooldown after the end of each of them.
StartsAfterCooldown(start, before) ==
  \A j \in 1..before : start >= calls[j].end + cooldown

(***************************************************************************)
(* C14: whatever the interleaving of the workers calling one gate, each    *)
(* admitted call starts at least the cooldown after the end of every call  *)
(* of the gate completed before it, and no two calls are admitted within   *)
(* one cooldown window: the start times of two admitted calls are at least *)
(* the cooldown apart.                                                     *)
(***************************************************************************)
C14_AdmissionRaceFree ==
  /\ \A k \in 1..Len(calls) : StartsAfterCooldown(calls[k].start, calls[k].before)
  /\ \A w \in Calling : StartsAfterCooldown(inflight[w].start, inflight[w].before)
  /\ \A j, k \in 1..Len(calls) :
        j # k => Abs(calls[j].start - calls[k].start) >= cooldown
  /\ \A w \in Calling : \A k \in 1..Len(calls) :
        Abs(inflight[w].start - calls[k].start) >= cooldown
  /\ \A w, v \in Calling :
        w # v => Abs(inflight[w].start - inflight[v].start) >= cooldown

\* Two workers contend for the gate: one has its call under way, started
\* exactly the cooldown after the end of the other's call, and the other
\* is back at the gate's lock-protected wait.
C14_Witness ==
  /\ cooldown = 2
  /\ Len(calls) = 1
  /\ \E w, v \in GateCallers :
        /\ w # v
        /\ calls[1].caller = v
        /\ gpc[w] = "calling"
        /\ inflight[w].start = calls[1].end + cooldown
        /\ gpc[v] = "idle"

(***************************************************************************)
(* C15: N calls made one after the other through one gate with cooldown C  *)
(* take at least (N-1)*C of time, from the start of the first to the end   *)
(* of the last; a caller that enters less than C after the end of the      *)
(* previous call sleeps until exactly C after that end.                    *)
(***************************************************************************)
C15_RateLimit ==
  /\ \A i, j \in 1..Len(calls) :
        i <= j => calls[j].end - calls[i].start >= (j - i) * cooldown
  /\ \A w \in GateCallers :
        gpc[w] = "sleeping" =>
           /\ gate_last.called
           /\ gate_wake[w] = gate_last.end + cooldown

\* One caller made three calls through a gate of cooldown 2 in the least
\* time there is: it slept before the second and before the third call.
C15_Witness ==
  /\ cooldown = 2
  /\ Len(calls) = 3
  /\ \A k \in 1..3 : calls[k].caller = 1
  /\ calls[3].end - calls[1].start = 4

\* raw with each path separator replaced by the placeholder.
WithPlaceholder(raw) ==
  [k \in 1..Len(raw) |-> IF raw[k] = "/" THEN "|" ELSE raw[k]]

\* Entry a is e or a directory above e.
RECURSIVE IsAtOrBelow(_, _, _)
IsAtOrBelow(t, e, a) ==
  IF e = a THEN TRUE
  ELSE IF t.parent[e] = 0 THEN FALSE
  ELSE IsAtOrBelow(t, t.parent[e], a)

\* Every record of every page fetched, yielded or not.
FetchedRecords ==
  UNION { { [rec |-> futures[i].files[k], prefix |-> futures[i].task[2]] :
              k \in 1..Len(futures[i].files) } : i \in Futs }

\* Task i lists a subdirectory that a page of task j discovered.
DiscoveredBy(i, j) ==
  /\ j < i
  /\ futures[i].task[1] # RootCid
  /\ futures[j].task[1] = tree.parent[futures[i].task[1]]

(***************************************************************************)
(* C16: every entry's name has each "/" replaced by "|"; the full path of  *)
(* a file record is the path prefix of the task that listed it, "/" and    *)
(* the escaped name; the path prefix of a subdirectory's task is the       *)
(* parent's prefix, "/" and the escaped name.  So an entry named a/b has   *)
(* the name a|b in its own record, and the path of every record or task    *)
(* at or below it starts with /a|b.                                        *)
(***************************************************************************)
C16_EscapedNamesAndPaths ==
  /\ \A f \in FetchedRecords :
        /\ f.rec.name = WithPlaceholder(tree.name[f.rec.id])
        /\ f.rec.path = f.prefix \o <<"/">> \o f.rec.name
        /\ \A a \in 1..tree.n :
              (tree.name[a] = <<"a", "/", "b">> /\ IsAtOrBelow(tree, f.rec.id, a))
                 => /\ Len(f.rec.path) >= 4
                    /\ SubSeq(f.rec.path, 1, 4) = <<"/", "a", "|", "b">>
                    /\ (f.rec.id = a => f.rec.name = <<"a", "|", "b">>)
  /\ \A k \in 1..Len(yielded) :
        \E f \in FetchedRecords : f.rec = yielded[k]
  /\ \A i, j \in Futs :
        DiscoveredBy(i, j) =>
           futures[i].task[2] =
              futures[j].task[2] \o <<"/">>
                 \o WithPlaceholder(tree.name[futures[i].task[1]])
  /\ futures # <<>> => futures[1].task[2] = <<>>

\* A file below a directory named a/b was yielded with its path /a|b/c.
C16_Witness ==
  \E k \in 1..Len(yielded) :
     /\ tree.parent[yielded[k].id] = 1
     /\ tree.name[1] = <<"a", "/", "b">>
     /\ yielded[k].path = <<"/", "a", "|", "b", "/">> \o yielded[k].name

\* The computed full path of every entry met so far: a file's is in its
\* record, a directory's is the path prefix of the tasks that list it.
ComputedPaths ==
  { <<f.rec.id, f.rec.path>> : f \in FetchedRecords }
    \cup { <<futures[i].task[1], futures[i].task[2]>> :
             i \in { j \in Futs : futures[j].task[1] # RootCid } }

PathsUnambiguous ==
  \A x, y \in ComputedPaths : x[1] # y[1] => x[2] # y[2]

(***************************************************************************)
(* C17 as stated: two distinct entries of the tree never receive the same  *)
(* computed full path after name escaping.                                 *)
(***************************************************************************)
C17_Original == PathsUnambiguous

(***************************************************************************)
(* C17 (amended): two distinct entries never receive the same computed     *)
(* full path provided no directory holds two entries whose names are equal *)
(* after escaping; entries in different directories then have different    *)
(* paths also when their names are the same.  Sibling entries named a/b    *)
(* and a|b both receive the path <prefix>/a|b.                             *)
(***************************************************************************)
C17_UnambiguousUnlessEscapedClash ==
  SiblingNamesDistinct(tree) => PathsUnambiguous

\* Two entries with the same raw name, one inside the other, were met with
\* different paths.
C17_Witness ==
  \E x, y \in ComputedPaths :
     /\ x[1] # y[1]
     /\ tree.name[x[1]] = tree.name[y[1]]
     /\ tree.parent[y[1]] = x[1]
     /\ x[2] # y[2]
     /\ SiblingNamesDistinct(tree)

(***************************************************************************)
(* C18: in every state of every run, aborted and closed runs included,     *)
(* every record yielded so far is a non-directory entry of the tree with   *)
(* its escaped name and its full path of the reference listing, and no     *)
(* entry was yielded twice: what was delivered is a subset of the tree's   *)
(* leaves.                                                                 *)
(***************************************************************************)
C18_DeliveredRecordsValid ==
  /\ \A k \in 1..Len(yielded) :
        /\ yielded[k].id \in Leaves(tree)
        /\ ~yielded[k].is_dir
        /\ yielded[k].name = WithPlaceholder(tree.name[yielded[k].id])
        /\ yielded[k].path = RefPath(tree, yielded[k].id)
  /\ NoEntryTwice
  /\ YieldedIds \subseteq Leaves(tree)

\* A run was aborted after two records had been delivered and before a
\* third leaf was.
C18_Witness ==
  /\ pc = "raised"
  /\ Len(yielded) = 2
  /\ YieldedIds # Leaves(tree)

\* The futures whose result the orchestrator took.
Taken ==
  { i \in Futs : /\ futures[i].state = "FINISHED"
                 /\ futures[i].exception = NoError
                 /\ i \notin pending_futures }

YieldedRecords == { yielded[k] : k \in 1..Len(yielded) }

\* The first n file records of future i were yielded.
YieldedUpTo(i, n) ==
  \A k \in 1..n : futures[i].files[k] \in YieldedRecords

(***************************************************************************)
(* C19: the records of a completed execution are yielded before the        *)
(* orchestrator waits for a further completion: whenever it waits (or has  *)
(* ended cleanly) every record of every result it took has been yielded,   *)
(* and while it works on one result every record of the results taken      *)
(* before has been.  Nothing is held back until the end of the crawl.      *)
(***************************************************************************)
C19_Streaming ==
  /\ pc \in {"wait", "done"} =>
        \A i \in Taken : YieldedUpTo(i, Len(futures[i].files))
  /\ pc \in {"process", "suspended"} =>
        /\ cur \in Taken
        /\ YieldedUpTo(cur, file_idx)
        /\ \A i \in Taken \ {cur} : YieldedUpTo(i, Len(futures[i].files))

\* The consumer holds a record while the pending set is not empty and a
\* listing has not yet returned.
C19_Witness ==
  /\ pc = "suspended"
  /\ Len(yielded) >= 1
  /\ pending_futures # {}
  /\ \E i \in pending_futures : futures[i].state # "FINISHED"

\* The error of failed execution i names the endpoint and carries the
\* payload, in its first argument.
NamesEndpointAndPayload(i) ==
  /\ futures[i].exception.kind \in ErrorKinds \cup {"RuntimeError"}
  /\ futures[i].exception.args0.api_name = futures[i].api.api_name
  /\ futures[i].exception.args0.payload = Payload(futures[i].task)

(***************************************************************************)
(* C20 as stated: every error a page job raises, of either kind and on     *)
(* whichever of the three endpoints, carries the endpoint name, the        *)
(* endpoint's base identifier and the payload used.                        *)
(***************************************************************************)
C20_Original ==
  \A i \in Futs :
     Failed(i) =>
        /\ NamesEndpointAndPayload(i)
        /\ futures[i].exception.args0.base_url # <<>>

(***************************************************************************)
(* C20 (amended): every error a page job raises, of either kind and on     *)
(* whichever of the three endpoints, carries in its first argument the     *)
(* endpoint name and the payload used; it carries the endpoint's base URL  *)
(* when the endpoint has one, that is on M1 and M2, and none on the        *)
(* fallback F, whose base_url is None.  The error is the exception caught, *)
(* with its first argument replaced, or, when the arguments of that        *)
(* exception cannot be assigned, a new RuntimeError with the message that  *)
(* has the exception caught as its cause.  The text of the error shows the *)
(* enrichment unless the exception builds its text from other fields than  *)
(* its arguments, as an OSError with errno and strerror does.              *)
(***************************************************************************)
C20_ErrorEnrichment ==
  \A i \in Futs :
     Failed(i) =>
        /\ NamesEndpointAndPayload(i)
        /\ futures[i].exception.args0.base_url = futures[i].api.base_url
        /\ (futures[i].exception.args0.base_url # <<>>)
              <=> (futures[i].api.api_name \in {M1, M2})
        /\ (futures[i].exception.args0.base_url = <<>>)
              <=> (futures[i].api.api_name = F)
        /\ \/ /\ futures[i].exception.cause = "none"
              /\ futures[i].exception.kind \in {"TransportError", "ProviderError"}
              /\ futures[i].exception.in_str
                    <=> (futures[i].exception.kind = "TransportError")
           \/ /\ futures[i].exception.kind = "RuntimeError"
              /\ futures[i].exception.cause = "FrozenError"
              /\ futures[i].exception.in_str

\* Errors of the three kinds were raised, on a mirror and on the fallback
\* endpoint: one is the exception caught, one a RuntimeError around it.
C20_Witness ==
  \E i, j \in Futs :
     /\ Failed(i) /\ Failed(j)
     /\ futures[i].exception.kind = "TransportError"
     /\ futures[j].exception.kind = "RuntimeError"
     /\ futures[j].exception.cause = "FrozenError"
     /\ futures[i].api.api_name \in {M1, M2}
     /\ futures[j].api.api_name = F
     /\ futures[j].exception.args0.base_url = <<>>
     /\ \E k \in Futs :
           /\ futures[k].exception.kind = "ProviderError"
           /\ ~futures[k].exception.in_str

\* The cooldowns of [M1, M2, F] in milliseconds, profile by profile.
ProfileTable(mode) ==
  CASE mode = 0 -> <<250, 250, 750>>
    [] mode = 1 -> <<500, 500, 1500>>
    [] mode = 2 -> <<1000, 1000, 2000>>
    [] mode = 3 -> <<1500, 1500, 2000>>

(***************************************************************************)
(* C21: the cooldowns of the gates of [M1, M2, F] are (0.25, 0.25, 0.75)   *)
(* seconds for speed_mode 0, (0.5, 0.5, 1.5) for 1, (1.0, 1.0, 2.0) for 2  *)
(* and (1.5, 1.5, 2.0) for 3; the gate of each endpoint is built with its  *)
(* component; and in no profile is the fallback's cooldown smaller than a  *)
(* mirror's.                                                               *)
(***************************************************************************)
C21_CooldownTriple ==
  /\ speed_mode \in 0..3 =>
        /\ CooldownTriple(speed_mode) = ProfileTable(speed_mode)
        /\ gate_api = M1 => cooldown * 250 = ProfileTable(speed_mode)[1]
        /\ gate_api = M2 => cooldown * 250 = ProfileTable(speed_mode)[2]
        /\ gate_api = F => cooldown * 250 = ProfileTable(speed_mode)[3]
  /\ CooldownTriple(speed_mode)[3] >= CooldownTriple(speed_mode)[1]
  /\ CooldownTriple(speed_mode)[3] >= CooldownTriple(speed_mode)[2]

\* The gate of the fallback endpoint, built for profile 3 with a cooldown of
\* 2 seconds (8 ticks), has let a call through.
C21_Witness ==
  /\ speed_mode = 3
  /\ gate_api = F
  /\ cooldown = 8
  /\ Len(calls) = 1

\* The number of items the response of the page holds.
JobItems == Len(job_resp.list)

(***************************************************************************)
(* C22: a page job for (directory_id, path_prefix, offset) returns a       *)
(* continuation task if and only if offset + items returned < the count    *)
(* of its response and at least one item was returned; it then returns     *)
(* exactly one, for the same directory_id and path_prefix, at offset +     *)
(* items returned; a page of zero items returns none whatever its count.   *)
(***************************************************************************)
C22_ContinuationRule ==
  job_pc = "returned" =>
     /\ (JobContinuations # {})
           <=> (job_task[3] + JobItems < job_resp.count /\ JobItems >= 1)
     /\ Cardinality(JobContinuations) <= 1
     /\ \A k \in JobContinuations :
           job_out.subdirs[k] =
              <<job_task[1], job_task[2], job_task[3] + JobItems>>
     /\ JobItems = 0 => JobContinuations = {}

\* A later page of a directory came back empty with a count above its
\* offset, and another page returned a continuation task after a directory
\* task.
C22_Witness ==
  /\ job_pc = "returned"
  /\ Len(job_pages) = 2
  /\ job_task[3] > 0
  /\ JobItems = 0
  /\ job_resp.count > job_task[3]
  /\ job_out.subdirs = <<>>
  /\ job_pages[1].resp.list[1].is_dir

\* The listing calls issued for future i.
RequestsOf(i) == { k \in 1..Len(requests) : requests[k].fut = i }

RequestKey(k) == <<requests[k].payload.cid, requests[k].payload.offset>>

(***************************************************************************)
(* C23: within one crawl every task is submitted once (no two futures have *)
(* the same directory and offset) and run at most once, exactly once when  *)
(* the crawl has ended cleanly; no (directory_id, offset) pair is          *)
(* requested twice; and the offsets of the tasks of one directory increase *)
(* strictly in submission order, each continuation task following a task   *)
(* of its directory with a smaller offset.                                 *)
(***************************************************************************)
C23_NoDuplicateFetch ==
  /\ \A i, j \in Futs :
        (i < j /\ futures[i].task[1] = futures[j].task[1])
           => futures[i].task[3] < futures[j].task[3]
  /\ \A j \in Futs :
        IsContinuation(j) =>
           \E i \in 1..(j - 1) :
              /\ futures[i].task[1] = futures[j].task[1]
              /\ futures[i].task[2] = futures[j].task[2]
              /\ futures[i].state = "FINISHED"
  /\ \A k, l \in 1..Len(requests) : k # l => RequestKey(k) # RequestKey(l)
  /\ \A i \in Futs :
        /\ Cardinality(RequestsOf(i)) = IF futures[i].called THEN 1 ELSE 0
        /\ futures[i].state = "FINISHED" => futures[i].called
        /\ futures[i].called => futures[i].state \in {"RUNNING", "FINISHED"}
  /\ pc = "done" => Len(requests) = Len(futures)

\* A crawl has ended cleanly after three pages of one directory and a page
\* of another were requested.
C23_Witness ==
  /\ pc = "done"
  /\ \E a, b, c, d \in 1..Len(requests) :
        /\ a < b /\ b < c
        /\ requests[a].payload.cid = requests[b].payload.cid
        /\ requests[b].payload.cid = requests[c].payload.cid
        /\ requests[d].payload.cid # requests[a].payload.cid

(***************************************************************************)
(* C24: every listing request carries limit 1000 when its offset is 0 and  *)
(* limit 7000 when its offset is greater than 0, and each page job issues  *)
(* exactly one listing call: an execution that runs or has ended, returned *)
(* or raised, has one request in the log, and it is the request for its    *)
(* own directory and offset.                                               *)
(***************************************************************************)
C24_LimitAndOneCall ==
  /\ \A k \in 1..Len(requests) :
        /\ requests[k].payload.offset = 0 => requests[k].payload.limit = 1000
        /\ requests[k].payload.offset > 0 => requests[k].payload.limit = 7000
        /\ requests[k].payload.offset >= 0
        /\ requests[k].fut \in Futs
        /\ requests[k].payload.cid = futures[requests[k].fut].task[1]
        /\ requests[k].payload.offset = futures[requests[k].fut].task[3]
  /\ \A i \in Futs :
        /\ futures[i].state = "FINISHED" => futures[i].called
        /\ futures[i].called => \E k \in 1..Len(requests) : RequestsOf(i) = {k}
        /\ ~futures[i].called => RequestsOf(i) = {}

\* A first page and a continuation page were requested, and the job of the
\* continuation page raised after its one call.
C24_Witness ==
  \E k, l \in 1..Len(requests) :
     /\ requests[k].payload.offset = 0
     /\ requests[l].payload.offset > 0
     /\ requests[l].payload.limit = 7000
     /\ Failed(requests[l].fut)

\* The records and the tasks a page returned for the entry with this id.
RecordsFor(id) == { k \in 1..Len(job_out.files) : job_out.files[k].id = id }

TasksFor(id) == { k \in 1..Len(job_out.subdirs) : job_out.subdirs[k][1] = id }

(***************************************************************************)
(* C25: every directory entry of a page produces exactly one task, at      *)
(* offset 0 and for that directory's id, and no file record; every other   *)
(* entry produces exactly one file record and no task; nothing else is     *)
(* produced but the continuation task.                                     *)
(***************************************************************************)
C25_EntryClassification ==
  job_pc = "returned" =>
     /\ \A n \in 1..Len(job_resp.list) :
           LET item == job_resp.list[n]
           IN IF item.is_dir
              THEN /\ Cardinality(TasksFor(item.id)) = 1
                   /\ \A k \in TasksFor(item.id) : job_out.subdirs[k][3] = 0
                   /\ RecordsFor(item.id) = {}
              ELSE /\ Cardinality(RecordsFor(item.id)) = 1
                   /\ \A k \in RecordsFor(item.id) : ~job_out.files[k].is_dir
                   /\ TasksFor(item.id) = {}
     /\ Len(job_out.files) + Len(job_out.subdirs)
           = Len(job_resp.list) + Cardinality(JobContinuations)

\* A page of a directory and a file returned one task, one record and the
\* continuation task.
C25_Witness ==
  /\ job_pc = "returned"
  /\ Len(job_resp.list) = 2
  /\ job_resp.list[1].is_dir /\ ~job_resp.list[2].is_dir
  /\ Len(job_out.files) = 1
  /\ Len(job_out.subdirs) = 2

\* No record is yielded in a step taken when some execution has raised.
NoYieldOnceRaised ==
  (\E i \in Futs : Failed(i)) => yielded' = yielded

\* No record is yielded in a step taken when the orchestrator has taken a
\* failed execution from as_completed.
NoYieldOnceObserved ==
  (ObservedFailures # {}) => yielded' = yielded

(***************************************************************************)
(* C26 as stated: from the moment any execution has raised, no further     *)
(* record is yielded to the consumer before that error is raised to it.    *)
(***************************************************************************)
C26_Original == [][NoYieldOnceRaised]_vars

(***************************************************************************)
(* C26 (amended): from the moment the orchestrator takes a failed          *)
(* execution from as_completed no further record is yielded, also when     *)
(* other executions have completed successfully and await processing.      *)
(* Between the moment an execution raised and that moment records are      *)
(* still yielded: the rest of the page being processed, and the pages of   *)
(* completed executions that as_completed hands over first.                *)
(***************************************************************************)
C26_NoYieldAfterObservedFailure == [][NoYieldOnceObserved]_vars

\* The error has reached the consumer while an execution that completed
\* successfully, with a file on its page, was still awaiting processing.
C26_Witness ==
  /\ pc = "raised"
  /\ ObservedFailures # {}
  /\ \E j \in pending_futures :
        /\ futures[j].state = "FINISHED"
        /\ futures[j].exception = NoError
        /\ futures[j].files # <<>>

\* The executions whose listing call was issued.
Started == { requests[k].fut : k \in 1..Len(requests) }

\* An execution that had started is running or has run to its end: it was
\* not cancelled.
StartedRunToCompletion ==
  \A i \in Started : futures[i].state \in {"RUNNING", "FINISHED"}

\* After the cancellation has begun nothing is yielded, no task is
\* submitted and no result is taken; an execution under way stays so or
\* ends, also one a pool thread started while the loop of lines 262-263 was
\* under way; once the loop is over and the pool was shut down nothing is
\* queued and no execution starts: a work item still in the hands of a
\* thread is one of a cancelled future and is dropped.
ResultsDiscarded ==
  Aborted =>
     /\ yielded' = yielded
     /\ Len(futures') = Len(futures)
     /\ CancelDone =>
           /\ work_queue = <<>> /\ work_queue' = <<>>
           /\ \A i \in Held : futures[i].state = "CANCELLED"
           /\ \A i \in Futs :
                 futures[i].state # "RUNNING" => futures'[i].state # "RUNNING"
     /\ pending_futures' = pending_futures
     /\ \A i \in Futs :
          futures[i].state = "RUNNING"
             => futures'[i].state \in {"RUNNING", "FINISHED"}

(***************************************************************************)
(* C27: after the cancellation triggered by the first observed failure,    *)
(* the executions that had started run their listing call to its end (a    *)
(* started execution is never cancelled), and their results are            *)
(* discarded: none of their records is yielded and none of the tasks they  *)
(* discovered is submitted.                                                *)
(***************************************************************************)
C27_StartedRunButDiscarded ==
  /\ [](Aborted => StartedRunToCompletion)
  /\ [][ResultsDiscarded]_vars

\* The error has reached the consumer; an execution that had not started
\* when the failure was taken was started by a pool thread before its
\* cancel() was called and returned a page with a file and a subdirectory,
\* none of which was yielded or submitted.
C27_Witness ==
  /\ pc = "raised"
  /\ \E j \in pending_futures \cap not_started :
        /\ j \in Started
        /\ futures[j].state = "FINISHED"
        /\ futures[j].exception = NoError
        /\ futures[j].files # <<>>
        /\ futures[j].subdirs # <<>>
        /\ \A k \in 1..Len(futures[j].files) :
              futures[j].files[k].id \notin YieldedIds
        /\ \A k \in 1..Len(futures[j].subdirs) :
              \A i \in Futs : futures[i].task # futures[j].subdirs[k]

\* The count the first page of the directory reported.
FirstPageCount == job_pages[1].resp.count

\* The page just parsed is a later page of its directory.
LaterPage == job_pc = "returned" /\ Len(job_pages) >= 2

(***************************************************************************)
(* C28 as stated: on a later page of a directory a continuation task is    *)
(* created according to the count the directory's first page reported,     *)
(* whatever count the later page reports.                                  *)
(***************************************************************************)
C28_Original ==
  LaterPage =>
     ((JobContinuations # {})
        <=> (job_task[3] + JobItems < FirstPageCount /\ JobItems >= 1))

(***************************************************************************)
(* C28 (amended): every page decides by the count of its own response: on  *)
(* a later page of a directory a continuation task is created exactly when *)
(* offset + items returned is below the count that page reports and the    *)
(* page is not empty; the first page's count plays no part, so a later     *)
(* page reporting a different count does change whether the chain goes on. *)
(***************************************************************************)
C28_OwnCountDecides ==
  LaterPage =>
     /\ (JobContinuations # {})
           <=> (job_task[3] + JobItems < job_resp.count /\ JobItems >= 1)
     /\ (job_resp.count = FirstPageCount) =>
           ((JobContinuations # {})
              <=> (job_task[3] + JobItems < FirstPageCount /\ JobItems >= 1))

\* The first page reported 4 entries, the second page reports 2: the chain
\* ends at offset 2 although the first page's count is not reached.
C28_Witness ==
  /\ LaterPage
  /\ FirstPageCount = 4
  /\ job_resp.count = 2
  /\ job_task[3] = 1
  /\ JobItems = 1
  /\ JobContinuations = {}

\* The first n file records of future i are in yielded one after the other,
\* from position s + 1 on, in the order of the page.
RunAt(i, n, s) ==
  /\ s + n <= Len(yielded)
  /\ \A k \in 1..n : yielded[s + k] = futures[i].files[k]

\* How many file records of future i were yielded: all of them, unless it
\* is the one the generator is at work on, or was at work on when it was
\* closed or an exception was thrown into it.
YieldedOf(i) ==
  IF i = cur THEN file_idx ELSE Len(futures[i].files)

\* The ids of the files of the page of future i, as the service lists them.
ListedFileIds(i) ==
  LET list == ListShare(tree, server_cap, Payload(futures[i].task)).list
      IsFile(a) == ~a.is_dir
      files == SelectSeq(list, IsFile)
  IN [k \in 1..Len(files) |-> files[k].id]

(***************************************************************************)
(* C29: the file records of one page are yielded one after the other, in   *)
(* the order the service returned them on that page, and no record of      *)
(* another page comes between them.                                        *)
(***************************************************************************)
C29_PageFifo ==
  /\ \A i \in Taken :
        /\ \E s \in 0..Len(yielded) : RunAt(i, YieldedOf(i), s)
        /\ [k \in 1..Len(futures[i].files) |-> futures[i].files[k].id]
              = ListedFileIds(i)
  /\ Len(yielded) =
        Cardinality(UNION { { futures[i].files[k].id : k \in 1..YieldedOf(i) } :
                            i \in Taken })

\* The two files of a subdirectory's page were yielded in the order of the
\* page, after the root's page was taken.
C29_Witness ==
  \E i, j \in Taken :
     /\ i # j
     /\ Len(futures[i].files) = 2
     /\ futures[i].files[1].id < futures[i].files[2].id
     /\ yielded = futures[i].files
     /\ pc = "done"

(***************************************************************************)
(* C30: the gate records the end of every call, of one that raised as of   *)
(* one that returned: its record is always the end of the call that ended  *)
(* last, and the call made after a call that raised starts at least the    *)
(* cooldown after that call's end.                                         *)
(***************************************************************************)
C30_FailedCallCounts ==
  /\ calls = <<>> => ~gate_last.called
  /\ calls # <<>> =>
        /\ gate_last.called
        /\ gate_last.end = calls[Len(calls)].end
  /\ \A k \in 2..Len(calls) :
        ~calls[k - 1].ok => calls[k].start >= calls[k - 1].end + cooldown
  /\ \A w \in Calling :
        (inflight[w].before >= 1 /\ ~calls[inflight[w].before].ok)
           => inflight[w].start >= calls[inflight[w].before].end + cooldown

\* A call raised, and the next call of the gate, entered at once, was issued
\* exactly the cooldown later.
C30_Witness ==
  /\ cooldown = 2
  /\ Len(calls) = 2
  /\ ~calls[1].ok
  /\ calls[2].start = calls[1].end + cooldown


\* Future i runs a task that the page of future j returned in subdirs_to_scan.
SubmittedBy(i, j) ==
  /\ j < i
  /\ \E k \in 1..Len(futures[j].subdirs) : futures[j].subdirs[k] = futures[i].task

\* The positions in yielded of the file records of the page of future i.
PositionsOf(i) ==
  { p \in 1..Len(yielded) :
      \E k \in 1..Len(futures[i].files) : yielded[p] = futures[i].files[k] }

\* A task a page discovered exists as a future only when every record of that
\* page was yielded, and its own records come later than all of them.
ParentPageFirst ==
  \A i, j \in Futs :
     SubmittedBy(i, j) =>
        /\ j \in Taken
        /\ YieldedUpTo(j, Len(futures[j].files))
        /\ \A p \in PositionsOf(i), q \in PositionsOf(j) : q < p

\* A step that submits has the generator past the last file of the result it
\* works on (or at its start); a step taken while the generator is suspended
\* at a yield submits nothing, takes no completion and leaves the cycler.
SubmitsAfterFilesOnly ==
  /\ Len(futures') > Len(futures) =>
        \/ pc = "start"
        \/ pc = "process" /\ file_idx = Len(futures[cur].files)
  /\ pc = "suspended" =>
        /\ Len(futures') = Len(futures)
        /\ pending_futures' = pending_futures
        /\ cycler' = cycler
        /\ cur' = cur

(***************************************************************************)
(* C31: the tasks a completed page discovered are submitted only after     *)
(* every file record of that page was taken by the consumer; while the     *)
(* generator is suspended at a yield nothing is submitted and no           *)
(* completion is taken.  So every record of a parent page is yielded       *)
(* before any record of a page discovered on it.                           *)
(***************************************************************************)
C31_ParentRecordsFirst ==
  [](ParentPageFirst) /\ [][SubmitsAfterFilesOnly]_vars

\* A record of a subdirectory's page was yielded after a record of the page
\* that discovered the subdirectory.
C31_Witness ==
  \E i, j \in Futs :
     /\ SubmittedBy(i, j)
     /\ futures[i].task[1] # futures[j].task[1]
     /\ PositionsOf(j) # {}
     /\ PositionsOf(i) # {}


\* The orchestrator worked through the result of future i: its records were
\* yielded and each task it returned was submitted.
FullyProcessed(i) ==
  /\ futures[i].state = "FINISHED"
  /\ futures[i].exception = NoError
  /\ YieldedUpTo(i, Len(futures[i].files))
  /\ \A k \in 1..Len(futures[i].subdirs) :
        \E j \in Futs : j > i /\ futures[j].task = futures[i].subdirs[k]

\* Nothing of future i has reached the consumer or the pool.
Untouched(i) ==
  /\ PositionsOf(i) = {}
  /\ \A j \in Futs : ~SubmittedBy(j, i)

\* At a turn of the while loop the pending set holds the submitted futures
\* the orchestrator has not worked through, and no other.
PendingIsUnprocessed ==
  /\ pending_futures \subseteq Futs
  /\ pc \in {"wait", "done"} =>
        /\ \A i \in pending_futures : Untouched(i)
        /\ \A i \in Futs \ pending_futures : FullyProcessed(i)
  /\ pc = "done" => pending_futures = {}

\* How a step changes the pending set: the first step makes it the root task
\* alone; a wait ends with one completed future removed, which is the one
\* worked on next; each submission adds the new future; a future removed is
\* never put back.
PendingStep ==
  /\ \A i \in Futs : i \notin pending_futures => i \notin pending_futures'
  /\ \/ /\ pending_futures' = pending_futures
        /\ Len(futures') = Len(futures)
     \/ /\ pc = "start"
        /\ Len(futures') = 1
        /\ futures'[1].task = <<RootCid, <<>>, 0>>
        /\ pending_futures' = {1}
     \/ /\ pc = "wait"
        /\ pc' # "wait"
        /\ Len(futures') = Len(futures)
        /\ \E i \in pending_futures :
              /\ futures[i].state = "FINISHED"
              /\ pending_futures' = pending_futures \ {i}
              /\ cur' = i
     \/ /\ pc = "process"
        /\ pc' = "process"
        /\ Len(futures') = Len(futures) + 1
        /\ pending_futures' = pending_futures \cup {Len(futures')}

(***************************************************************************)
(* C32: at every turn of the control loop the pending set holds exactly    *)
(* the executions submitted whose result the orchestrator has not          *)
(* processed.  It starts as the root task (RootCid, "", 0) alone, an       *)
(* execution is removed once and never put back, and each wait ends with   *)
(* exactly one completed execution taken.                                  *)
(***************************************************************************)
C32_PendingSet ==
  [](PendingIsUnprocessed) /\ [][PendingStep]_vars

\* The loop waits with one execution pending and two worked through, one of
\* which had a record.
C32_Witness ==
  /\ pc = "wait"
  /\ Cardinality(pending_futures) >= 1
  /\ Cardinality(Futs \ pending_futures) >= 2
  /\ Len(yielded) >= 1


\* A step of a worker thread: it takes a work item, calls the endpoint, or
\* ends its run.
WorkerStep ==
  \/ WorkerGet
  \/ \E i \in Futs : WorkerStart(i)
  \/ \E i \in Futs : EndpointCall(i)
  \/ \E i \in Futs : JobReturn(i)
  \/ \E i \in Futs, kind \in ErrorKinds : JobRaise(i, kind)

\* A worker's step leaves the pending set, the cycler and the generator's
\* position as they are; the cycler moves in a submitting step only.
WorkersLeaveOrchestratorState ==
  /\ WorkerStep =>
        /\ pending_futures' = pending_futures
        /\ cycler' = cycler
        /\ pc' = pc
        /\ cur' = cur
  /\ cycler' # cycler => Len(futures') > Len(futures)

\* The first-page futures, in submission order.
FirstPageFutures == SelectSeq([i \in Futs |-> i], IsFirstPage)

\* The rotation has neither skipped nor repeated a slot: the n-th first-page
\* task has the n-th endpoint of the rotation and the cycler stands at the
\* number of first-page tasks submitted.
RotationInStep ==
  /\ \A n \in 1..Len(FirstPageFutures) :
        futures[FirstPageFutures[n]].api = CyclerNext(n - 1)
  /\ cycler = Len(FirstPageFutures) % 2

(***************************************************************************)
(* C33: only the orchestrator's control loop reads and changes the pending *)
(* set and the round-robin selector; no step of a worker thread touches    *)
(* them.  So whatever the interleaving of the workers, the pending set     *)
(* holds futures submitted only and the first-page tasks take the slots of *)
(* the rotation one by one, none skipped and none repeated.                *)
(***************************************************************************)
C33_OrchestratorOwnsState ==
  /\ [](RotationInStep /\ pending_futures \subseteq Futs)
  /\ [][WorkersLeaveOrchestratorState]_vars

\* Two first-page tasks below the root ran on two workers and both ended
\* before the orchestrator, waiting, took either of them.
C33_Witness ==
  /\ pc = "wait"
  /\ max_workers = 2
  /\ \E i, j \in pending_futures :
        /\ 1 < i /\ i < j
        /\ IsFirstPage(i) /\ IsFirstPage(j)
        /\ futures[i].state = "FINISHED"
        /\ futures[j].state = "FINISHED"
        /\ futures[i].api # futures[j].api


\* The listing calls issued with offset 0.
FirstPageRequests ==
  { k \in 1..Len(requests) : requests[k].payload.offset = 0 }

(***************************************************************************)
(* C34: the fallback endpoint F never receives a request with offset 0.    *)
(* Every request with offset 0 goes to M1 or M2, the one of the root task  *)
(* to M1, and every request that goes to F has an offset above 0; the list *)
(* first_page_api_pool, which holds F, decides the endpoint of no request. *)
(***************************************************************************)
C34_FallbackNeverFirstPage ==
  /\ snap_api_info \in PoolEndpoints
  /\ \A k \in FirstPageRequests : requests[k].api_name \in {M1, M2}
  /\ \A k \in 1..Len(requests) :
        /\ requests[k].api_name = F => requests[k].payload.offset > 0
        /\ requests[k].payload = Payload(<<RootCid, <<>>, 0>>)
              => requests[k].api_name = M1
  /\ requests # <<>> =>
        /\ requests[1].fut = 1
        /\ requests[1].payload = Payload(<<RootCid, <<>>, 0>>)

\* The root's request went to M1, a subdirectory's first page to M2 and a
\* continuation to F.
C34_Witness ==
  /\ requests # <<>>
  /\ requests[1].api_name = M1
  /\ \E k \in FirstPageRequests :
        requests[k].api_name = M2 /\ requests[k].payload.cid # RootCid
  /\ \E k \in 1..Len(requests) :
        requests[k].api_name = F /\ requests[k].payload.offset > 0


\* How many events of the feed the for loop has passed without returning.
LifePassed == life_offset + life_idx

\* How many events of the feed the loop has decided on: those passed and
\* the one the consumer holds.
LifeDecided ==
  LifePassed + IF life_pc \in {"suspended", "closed"} THEN 1 ELSE 0

\* The positions in the feed of the events with an id at or below from_id.
AtOrBelowFromId ==
  { k \in 1..Len(life_feed) :
      life_from_id # 0 /\ life_feed[k].id <= life_from_id }

\* from_id is exclusive: no event with an id at or below it is yielded, the
\* loop never passes the first such event and no page beyond it is asked for.
FromIdExclusive ==
  /\ \A k \in 1..Len(life_yielded) :
        life_from_id # 0 => life_yielded[k].id > life_from_id
  /\ \A c \in AtOrBelowFromId :
        /\ LifePassed < c
        /\ \A r \in 1..Len(life_requests) : life_requests[r].offset < c

\* from_time changes when the function is entered only, and then to -1 when
\* a from_id is given and from_time is 0; the loop ends in the step that
\* meets an event with an id at or below from_id.
FromTimeReset ==
  /\ life_from_time' # life_from_time =>
        /\ life_pc = "new"
        /\ life_from_id # 0
        /\ life_from_time = 0
        /\ life_from_time' = -1
  /\ (life_pc = "new" /\ life_pc' # "new"
        /\ life_from_id # 0 /\ life_from_time = 0) => life_from_time' = -1
  /\ (life_pc = "events" /\ life_idx < Len(life_resp.list)
        /\ LifePassed + 1 \in AtOrBelowFromId) =>
           (life_pc' = "done" /\ life_yielded' = life_yielded
              /\ life_requests' = life_requests)

(***************************************************************************)
(* C35: with from_id # 0, iter_life_behavior_once takes from_id as         *)
(* exclusive: it yields no event with an id at or below from_id, and at    *)
(* the first such event the whole iteration ends, with no further page     *)
(* asked for.  With from_id # 0 and from_time = 0, from_time is set to -1. *)
(***************************************************************************)
C35_FromIdExclusive ==
  [](FromIdExclusive) /\ [][FromTimeReset]_vars

\* from_time was reset, the first event was yielded, the run ended at the
\* second, whose id is from_id, and the third the count tells of was never
\* asked for.
C35_Witness ==
  /\ life_from_id = 1
  /\ life_from_time = -1
  /\ life_pc = "done"
  /\ Len(life_feed) = 2
  /\ life_feed[2].id = life_from_id
  /\ life_yielded = <<Named(life_feed[1])>>
  /\ Len(life_requests) = 2
  /\ life_resp.count > LifePassed + 1


\* Event k of the feed is the first of the feed with its file_id.
FirstOfFileId(k) ==
  \A j \in 1..(k - 1) : life_feed[j].file_id # life_feed[k].file_id

\* The events the run has to have yielded after the loop passed n events of
\* the feed: of each file_id its first event, when that one is not ignored.
FirstEventsWanted(n) ==
  LET Keep(k) == /\ FirstOfFileId(k)
                 /\ Wanted(life_feed[k], life_type, life_ignore_types)
      kept == SelectSeq([k \in 1..n |-> k], Keep)
  IN [i \in 1..Len(kept) |-> Named(life_feed[kept[i]])]

\* One event per file_id at most, each the first seen of its file_id, and
\* none for a file_id whose first event is of an ignored type; a further
\* page is asked for only below the count reported and after a page with
\* events.
OncePerFileId ==
  /\ \A k, l \in 1..Len(life_yielded) :
        k # l => life_yielded[k].file_id # life_yielded[l].file_id
  /\ life_yielded = FirstEventsWanted(LifeDecided)
  /\ \A k \in 1..LifeDecided :
        (/\ FirstOfFileId(k)
         /\ ~Wanted(life_feed[k], life_type, life_ignore_types))
           => \A l \in 1..Len(life_yielded) :
                 life_yielded[l].file_id # life_feed[k].file_id
  /\ (life_pc = "call" /\ life_requests # <<>>) =>
        /\ life_resp.list # <<>>
        /\ life_offset < life_resp.count
  /\ \A r \in 1..Len(life_requests) :
        r > 1 => life_requests[r].offset > life_requests[r - 1].offset

\* The step after the last event of a page ends the run when the page is
\* empty or the offset has reached the count.
StopsAtCountOrEmptyPage ==
  (/\ life_pc = "events"
   /\ life_idx = Len(life_resp.list)
   /\ \/ life_resp.list = <<>>
      \/ life_offset + Len(life_resp.list) >= life_resp.count)
     => (life_pc' = "done" /\ life_requests' = life_requests)

(***************************************************************************)
(* C36: one run of iter_life_behavior_once yields at most one event per    *)
(* file_id over all pages: the first event seen for the file_id, or none   *)
(* at all when that first event is of an ignored type.  The run ends once  *)
(* the offset has reached the count reported or a page is empty.           *)
(***************************************************************************)
C36_OnePerFileId ==
  [](OncePerFileId) /\ [][StopsAtCountOrEmptyPage]_vars

\* The first event of a file_id was of an ignored type, a later page held
\* a wanted event of the same file_id, and nothing was yielded.
C36_Witness ==
  /\ life_pc = "done"
  /\ Len(life_requests) = 2
  /\ LifePassed = 2
  /\ life_feed[1].file_id = life_feed[2].file_id
  /\ ~Wanted(life_feed[1], life_type, life_ignore_types)
  /\ Wanted(life_feed[2], life_type, life_ignore_types)
  /\ life_yielded = <<>>


(***************************************************************************)
(* C37 as stated: CloudDriveApi.upload returns a FileItem only after a     *)
(* status_changed reply with status FINISH came for its own upload_id; in  *)
(* every other outcome, the channel's stream ending without FINISH among   *)
(* them, it returns None.                                                  *)
(***************************************************************************)
C37_FileItemOnlyAfterFinish ==
  /\ up_result = "FileItem" => up_finished
  /\ (up_pc = "done" /\ ~up_finished) => up_result = "None"


\* _clouddrive_api wraps the client that _client holds, which authenticated
\* and was not closed.
ApiOnAuthenticatedClient ==
  plug_api # 0 =>
     /\ plug_client = plug_api
     /\ plug_client \in plug_authed \ plug_closed

\* The last storage operation found _clouddrive_api None when it tested it,
\* on an item of the plugin's storage.
OpFoundNoApi == plug_op # NoOp /\ ~plug_op.ready /\ plug_op.own

\* No call of init_plugin, stop_service or a storage operation is under way,
\* and none began while another was: the calls came one after the other.
AfterSequence ==
  /\ \A s \in Slots : ~Busy(s)
  /\ ~plug_overlap

(***************************************************************************)
(* C38 as stated: after any sequence of init_plugin and stop_service       *)
(* calls, _clouddrive_api is not None only if the plugin is enabled and    *)
(* _client is a client whose authenticate returned True; a failed          *)
(* authentication or any exception during setup leaves _client and         *)
(* _clouddrive_api None; and every storage operation then returns None or  *)
(* an empty list without touching the client.                              *)
(***************************************************************************)
C38_Original ==
  AfterSequence =>
    /\ ApiOnAuthenticatedClient
    /\ plug_api # 0 => plug_enabled
    /\ plug_last \in {"auth_failed", "exception", "raised"} =>
          (plug_client = 0 /\ plug_api = 0)
    /\ OpFoundNoApi =>
          (plug_op.result \in {"None", "[]"} /\ ~plug_op.touched)

(***************************************************************************)
(* C38 (amended): after calls of init_plugin, stop_service and the storage *)
(* operations that came one after the other, _clouddrive_api is not None   *)
(* only if _client is the client it wraps, whose authenticate returned     *)
(* True and which was not closed, and the plugin is enabled or a later     *)
(* init_plugin raised while reading its config, which leaves both          *)
(* attributes as they were.  A failed authentication or an exception while *)
(* the client is created, authenticated or wrapped leaves both None, as    *)
(* stop_service, a disabled config and one without username or password    *)
(* do.  Whether calls overlap or not, a storage operation that finds       *)
(* _clouddrive_api None when it tests it, or is called for another         *)
(* storage, does not touch the client and returns None, or an empty list   *)
(* for list_files, or False for exists.  Only calls that overlapped leave  *)
(* a _clouddrive_api that wraps a client whose authenticate did not return *)
(* True, or one built on a _client of None, or make a storage operation    *)
(* raise for a _clouddrive_api found None after the test.                  *)
(***************************************************************************)
C38_ApiOnlyWhenAuthenticated ==
  /\ AfterSequence =>
       /\ ApiOnAuthenticatedClient
       /\ plug_api # 0 => (plug_enabled \/ plug_last = "raised")
       /\ plug_last = "ready" => (plug_api # 0 /\ plug_enabled)
       /\ plug_last \in {"auth_failed", "exception", "stopped", "disabled",
                         "no_credentials"} =>
             (plug_client = 0 /\ plug_api = 0)
  /\ (plug_api > 0 /\ plug_api \notin plug_authed) => plug_overlap
  /\ plug_api = WrapsNone => plug_overlap
  /\ plug_op.result = "raised" => plug_overlap
  /\ OpFoundNoApi =>
        /\ ~plug_op.touched
        /\ plug_op.result =
              IF plug_op.op = "exists" THEN "False"
              ELSE IF plug_op.op = "list_files" THEN "[]"
              ELSE "None"
  /\ (plug_op # NoOp /\ ~plug_op.own) =>
        (~plug_op.touched /\ plug_op.result \in {"None", "[]"})

\* Calls having come one after the other, a second client failed to
\* authenticate after a first one had served, and exists then answered
\* False without touching any client.
C38_Witness ==
  /\ AfterSequence
  /\ plug_last = "auth_failed"
  /\ plug_clients = 2
  /\ plug_authed = {1}
  /\ plug_closed = {2}
  /\ plug_client = 0
  /\ plug_api = 0
  /\ plug_op.op = "exists"
  /\ OpFoundNoApi
  /\ plug_op.result = "False"

====
